---------------------------- MODULE Spec2Model ----------------------------
(***************************************************************************)
(* Orb field: 3D spatial grid, orb physics, collision resolution, the     *)
(* per-frame phase pipeline and the burst trigger hook.                    *)
(*                                                                         *)
(* Numbers.  JavaScript numbers are modelled as fixed-point integers with  *)
(* Q units per 1.0 (pixels, layers, pixels per second).  Divisions round   *)
(* toward zero unless stated otherwise.  Orb sizes, cell indices and flag  *)
(* words are plain integers.                                               *)
(***************************************************************************)
EXTENDS Integers, Sequences, FiniteSets, TLC

VARIABLES
    \* ---- grid / mark / clear / canSpawn (SpecGrid)
    grid,        \* SpatialGrid cell store: [Cells -> 0..7]
    gOrb,        \* the orb handed to markOrbCircular / clearOrbCircular
    gPhase,      \* "clean" | "marked" | "cleared"
    spawnQuery,  \* the recorded canSpawn call: [asked, pxX, pxY, z, size, result]
    \* ---- burst trigger hook and grid initialization (SpecBurst)
    mounted,           \* the first effect flush (mount) has run
    triggerBurst,      \* prop of OrbField / useOrbBurst
    committedTrigger,  \* triggerBurst as seen by the last run of the burst effect
    windowSize,        \* useEventHandlers state: [width, height]
    committedSize,     \* windowSize as seen by the last effect flush
    gridRef,           \* 0 = null, n = the n-th SpatialGrid built
    viewportCellsRef,  \* 0 = null, n = viewport cells built with the n-th grid
    windowSizeRef,     \* useOrbBurst's windowSizeRef.current
    hasBurstRef,       \* useOrbBurst's hasBurstRef.current
    burstTimeRef,      \* FALSE = null, TRUE = performance.now() recorded
    retryQueue,        \* pending requestAnimationFrame(checkAndBurst) callbacks
    burstCalls,        \* invocations of spawnOrbBurst so far, with their arguments
    chainsStarted,     \* the burst effect has called checkAndBurst at least once
    resizeCount,       \* window resizes so far
    toggleCount,       \* triggerBurst changes so far
    \* ---- pairwise collision resolution (SpecCollide)
    cOrbs,      \* the orbs array: <<orbA, orbB>>
    cPre,       \* the orbs array as it was when the resolver was entered
    cNormal,    \* the collision normal the resolver used for the velocity update
    cResolver,  \* "none", "OrbOrbCollision" or "CollisionSystem"
    \* ---- frame callback: runLoop, runPhysics and the render pass (SpecFrame)
    orbsRef,       \* orbsRef.current: the live orbs, in array order
    fGrid,         \* the SpatialGrid the frame works on
    pc,            \* "idle" between callbacks, else the step about to run
    fCtx,          \* what the callback sampled: easedProgress, deltaTime, refs
    phaseLog,      \* steps the current (or last) callback has run, in order
    fNow,          \* getEffectiveTime() in milliseconds
    frameCount,    \* frame callbacks started so far
    revealDone,    \* a callback has seen easedProgress >= 1
    speedLimitRan, \* the speed-limit phase has run at least once
    expLeft,       \* ids of the live set as the last expiration phase left it
    spawnSaw,      \* ids of the live set the last continuous-spawn phase read
    nextOrbId,     \* source of fresh orb ids
    pausedFrames,  \* consecutive callbacks so far that found pausePhysics set
    \* ---- orb manager: createOrb, deleteOrb, selectOrb (SpecManager)
    selectedOrbIdRef,  \* selectedOrbIdRef.current: 0 = null, else an orb id
    lastCall,          \* the last manager call: its name, arguments and outcome
    editCount,         \* manager calls so far
    \* ---- sequences of OrbPhysics grid operations (SpecGridOps)
    opCount,           \* grid operations applied so far
    \* ---- pointer and parallax offset seen by a frame (SpecPointer)
    mousePosRef,             \* mousePosRef.current: NoPointer = null
    currentScrollOffsetRef,  \* currentScrollOffsetRef.current: [x, y]
    repelCall,               \* the last frame's repulsion call and what it sampled
    \* ---- OrbPhysics.updatePosition (SpecMove)
    uOrb,              \* the orb handed to updatePosition
    uPre,              \* the orb before the first update
    uDts,              \* the deltaTime values applied so far
    \* ---- useAnimationLoop and GridAnimator (SpecLoop)
    visible,           \* prop of useAnimationLoop
    loopMounted,       \* the hook's component is mounted
    hasGridConfig,     \* gridConfig !== null
    hasStartedRef,     \* hasStartedRef.current
    hasAnimatedRef,    \* hasAnimatedRef.current
    loopIdRef,         \* loopIdRef.current: 0 = null, else a request id
    animatorRef,       \* animatorRef.current: NoAnimator or [isRunning, animationId]
    rafPending,        \* requestAnimationFrame requests not yet run or cancelled
    rafNextId,         \* the id the next requestAnimationFrame returns
    onLoopCalls,       \* invocations of onLoop so far
    cleanedUp,         \* the unmount cleanup has run
    \* ---- CollisionSystem.checkMove and applyReflection (SpecCheckMove)
    kOrb,              \* the orb handed to checkMove
    kGrid,             \* the grid checkMove reads
    kResult,           \* the CollisionResult of the last call and the orb reflected by it
    \* ---- cell flag helpers of shared/types.ts (SpecFlags)
    flagCell,          \* the cell state the helpers are applied to
    flagCall,          \* the last helper call: its name, flag and argument
    flagCount,         \* helper calls so far
    \* ---- OrbPhysics.applySpeedLimit (SpecSpeedLimit)
    lOrb,              \* the orb handed to applySpeedLimit
    lPre,              \* that orb before the call
    lCall,             \* the last call: its decelerationRate and deltaTime
    \* ---- useGridInitialization and the refs runLoop reads (SpecGridRefs)
    builtGrid,         \* the SpatialGrid object in gridRef.current
    builtVpc,          \* the ViewportCells object in viewportCellsRef.current
    loopFrame          \* what the last runLoop callback read and handed on

gridVars == <<grid, gOrb, gPhase, spawnQuery>>
burstVars == <<mounted, triggerBurst, committedTrigger, windowSize, committedSize,
               gridRef, viewportCellsRef, windowSizeRef, hasBurstRef, burstTimeRef,
               retryQueue, burstCalls, chainsStarted, resizeCount, toggleCount>>
collideVars == <<cOrbs, cPre, cNormal, cResolver>>
frameVars == <<orbsRef, fGrid, pc, fCtx, phaseLog, fNow, frameCount, revealDone,
               speedLimitRan, expLeft, spawnSaw, nextOrbId, pausedFrames>>
managerVars == <<selectedOrbIdRef, lastCall, editCount>>
opsVars == <<opCount>>
pointerVars == <<mousePosRef, currentScrollOffsetRef, repelCall>>
moveVars == <<uOrb, uPre, uDts>>
loopVars == <<visible, loopMounted, hasGridConfig, hasStartedRef, hasAnimatedRef, loopIdRef,
              animatorRef, rafPending, rafNextId, onLoopCalls, cleanedUp>>
checkVars == <<kOrb, kGrid, kResult>>
flagVars == <<flagCell, flagCall, flagCount>>
limitVars == <<lOrb, lPre, lCall>>
refsVars == <<builtGrid, builtVpc, loopFrame>>
auxVars ==
    <<opsVars, pointerVars, moveVars, loopVars, checkVars, flagVars, limitVars, refsVars>>
vars == <<gridVars, burstVars, collideVars, frameVars, managerVars, auxVars>>

-----------------------------------------------------------------------------
(* Bounds of the model *)

GridW == 5        \* cellsX
GridH == 5        \* cellsY
GridL == 3        \* layers
MaxSize == 2      \* largest orb size drawn
CellPx == 10      \* cell size in pixels (cellSizeXPx = cellSizeYPx)
StartCellX == 1   \* vpc.startCellX: cells of the extended grid left of the viewport
StartCellY == 1   \* vpc.startCellY
MaxResizes == 3   \* window resize events in one run
MaxToggles == 3   \* triggerBurst changes in one run
MaxFrames == 2    \* frame callbacks in one run

Q == 10 * 10      \* fixed-point units per 1.0

-----------------------------------------------------------------------------
(* Arithmetic helpers *)

Abs(a) == IF a < 0 THEN -a ELSE a

\* (x | 0) of a quotient: truncation toward zero.
TruncDiv(a, b) == IF a >= 0 THEN a \div b ELSE -((-a) \div b)

\* floor(sqrt(n)) for n >= 0.
Isqrt(n) == CHOOSE r \in 0..n : r * r <= n /\ (r + 1) * (r + 1) > n

\* F applied to the value of v, which is computed once.
With(v, F(_)) == CHOOSE r \in {F(x) : x \in {v}} : TRUE

RECURSIVE SqrtSearch(_, _, _)
SqrtSearch(n, lo, hi) ==
    IF lo >= hi THEN lo
    ELSE LET mid == (lo + hi + 1) \div 2
         IN  IF mid * mid <= n THEN SqrtSearch(n, mid, hi) ELSE SqrtSearch(n, lo, mid - 1)

\* Math.sqrt on fixed-point operands: n carries Q*Q units per 1.0, the result Q.
Sqrt(n) == SqrtSearch(n, 0, 46340)

\* Product and quotient of two fixed-point numbers.
Fx(a, b) == TruncDiv(a * b, Q)

Fd(a, b) == TruncDiv(a * Q, b)

\* Math.round of a fixed-point number: nearest integer, halves toward +infinity.
MathRound(zq) == (2 * zq + Q) \div (2 * Q)

RECURSIVE BitAnd(_, _)
BitAnd(a, b) ==
    IF a = 0 \/ b = 0 THEN 0
    ELSE (a % 2) * (b % 2) + 2 * BitAnd(a \div 2, b \div 2)

RECURSIVE BitOr(_, _)
BitOr(a, b) ==
    IF a = 0 THEN b
    ELSE IF b = 0 THEN a
    ELSE (IF a % 2 = 1 \/ b % 2 = 1 THEN 1 ELSE 0) + 2 * BitOr(a \div 2, b \div 2)

-----------------------------------------------------------------------------
(* Cell flags: shared/types.ts *)

CELL_EMPTY == 0
CELL_PROXIMITY == 1
CELL_FILLED == 2
CELL_BORDER == 4

hasCellFlag(cellState, flag) == BitAnd(cellState, flag) # 0

\* Variant that stores the flag as the whole state, as setCell would.
addCellFlag_Overwrite(cellState, flag) == flag

addCellFlag(cellState, flag) == BitOr(cellState, flag)

\* cellState & ~flag
removeCellFlag(cellState, flag) == cellState - BitAnd(cellState, flag)

-----------------------------------------------------------------------------
(* SpatialGrid: dense store addressed by (cellX, cellY, layer) *)

Cells == (0..(GridW - 1)) \X (0..(GridH - 1)) \X (0..(GridL - 1))

InBounds(x, y, l) ==
    /\ x >= 0 /\ x < GridW
    /\ y >= 0 /\ y < GridH
    /\ l >= 0 /\ l < GridL

IsBorderCell(x, y) == x = 0 \/ x = GridW - 1 \/ y = 0 \/ y = GridH - 1

\* new SpatialGrid(config); initializeBorder(); saveCleanState()
BorderGrid ==
    [c \in Cells |-> IF IsBorderCell(c[1], c[2]) THEN CELL_BORDER ELSE CELL_EMPTY]

\* grid.getCell: out-of-range coordinates read as an implicit border.
GridGetCell(g, x, y, l) == IF <<x, y, l>> \in DOMAIN g THEN g[<<x, y, l>>] ELSE CELL_BORDER

\* grid.isBlocking: FILLED or BORDER set.
GridIsBlocking(g, x, y, l) ==
    LET s == GridGetCell(g, x, y, l)
    IN  hasCellFlag(s, CELL_FILLED) \/ hasCellFlag(s, CELL_BORDER)

-----------------------------------------------------------------------------
(* OrbPhysics: footprint geometry *)

\* ((px * invCellSize) | 0) + startCell
CellOf(px, cellSizePx, startCell) == TruncDiv(px, cellSizePx * Q) + startCell

centerCellX(orb) == CellOf(orb.pxX, CellPx, StartCellX)
centerCellY(orb) == CellOf(orb.pxY, CellPx, StartCellY)
centerLayer(orb) == MathRound(orb.z)

BodyRadius(size) == size - 1

\* Math.floor(Math.sqrt(size) + radius + 1)
AvoidanceRadius(size) == Isqrt(size) + BodyRadius(size) + 1

DistSq(dx, dy, dz) == dx * dx + dy * dy + dz * dz

\* Cell c relative to the centre (cx, cy, cl).
CellDistSq(c, cx, cy, cl) == DistSq(c[1] - cx, c[2] - cy, c[3] - cl)

\* The loop bounds -r..r on each axis.
InCube(c, cx, cy, cl, r) ==
    /\ Abs(c[1] - cx) <= r
    /\ Abs(c[2] - cy) <= r
    /\ Abs(c[3] - cl) <= r

InShell(c, cx, cy, cl, size) ==
    LET radius == BodyRadius(size)
        avoid  == AvoidanceRadius(size)
        d      == CellDistSq(c, cx, cy, cl)
    IN  InCube(c, cx, cy, cl, avoid) /\ d > radius * radius /\ d <= avoid * avoid

InBody(c, cx, cy, cl, size) ==
    LET radius == BodyRadius(size)
    IN  InCube(c, cx, cy, cl, radius) /\ CellDistSq(c, cx, cy, cl) <= radius * radius

\* First pass of markOrbCircular: addCellFlag(.., CELL_PROXIMITY) over the shell;
\* grid.addCellFlag ignores out-of-range coordinates.
MarkShellPass(g, cx, cy, cl, size) ==
    [c \in Cells |->
        IF InShell(c, cx, cy, cl, size) THEN addCellFlag(g[c], CELL_PROXIMITY) ELSE g[c]]

\* Second pass of markOrbCircular: addCellFlag(.., CELL_FILLED) over the body.
MarkBodyPass(g, cx, cy, cl, size) ==
    [c \in Cells |->
        IF InBody(c, cx, cy, cl, size) THEN addCellFlag(g[c], CELL_FILLED) ELSE g[c]]

markOrbCircular(g, orb) ==
    LET cx == centerCellX(orb)
        cy == centerCellY(orb)
        cl == centerLayer(orb)
    IN  MarkBodyPass(MarkShellPass(g, cx, cy, cl, orb.size), cx, cy, cl, orb.size)

ClearShellPass(g, cx, cy, cl, size) ==
    [c \in Cells |->
        IF InShell(c, cx, cy, cl, size) THEN removeCellFlag(g[c], CELL_PROXIMITY) ELSE g[c]]

ClearBodyPass(g, cx, cy, cl, size) ==
    [c \in Cells |->
        IF InBody(c, cx, cy, cl, size) THEN removeCellFlag(g[c], CELL_FILLED) ELSE g[c]]

\* Variant that overwrites the footprint with CELL_EMPTY (setCell, as markOrb
\* does) instead of removing the two flags.
clearOrbCircular_Overwrite(g, orb) ==
    LET cx == centerCellX(orb)
        cy == centerCellY(orb)
        cl == centerLayer(orb)
    IN  [c \in Cells |->
            IF InShell(c, cx, cy, cl, orb.size) \/ InBody(c, cx, cy, cl, orb.size)
            THEN CELL_EMPTY ELSE g[c]]

clearOrbCircular(g, orb) ==
    LET cx == centerCellX(orb)
        cy == centerCellY(orb)
        cl == centerLayer(orb)
    IN  ClearBodyPass(ClearShellPass(g, cx, cy, cl, orb.size), cx, cy, cl, orb.size)


-----------------------------------------------------------------------------
(* CollisionSystem.canSpawn *)

\* Footprint offsets of a sphere of the given radius: the loops -r..r with the
\* distance test.
SphereOffsets(radius) ==
    {d \in ((-radius)..radius) \X ((-radius)..radius) \X ((-radius)..radius) :
        DistSq(d[1], d[2], d[3]) <= radius * radius}

SpawnBlocked(state) == hasCellFlag(state, CELL_FILLED) \/ hasCellFlag(state, CELL_BORDER)

\* Variant that also treats the soft avoidance zone as occupied.
canSpawn_ProximityBlocks(pxX, pxY, z, size, g) ==
    LET cx == CellOf(pxX, CellPx, StartCellX)
        cy == CellOf(pxY, CellPx, StartCellY)
        cl == MathRound(z)
    IN  \A d \in SphereOffsets(size - 1) :
            GridGetCell(g, cx + d[1], cy + d[2], cl + d[3]) = CELL_EMPTY

canSpawn(pxX, pxY, z, size, g) ==
    LET cx == CellOf(pxX, CellPx, StartCellX)
        cy == CellOf(pxY, CellPx, StartCellY)
        cl == MathRound(z)
    IN  IF size = 1
        THEN ~SpawnBlocked(GridGetCell(g, cx, cy, cl))
        ELSE \A d \in SphereOffsets(size - 1) :
                ~SpawnBlocked(GridGetCell(g, cx + d[1], cy + d[2], cl + d[3]))

-----------------------------------------------------------------------------
(* SpecGrid: one orb is marked, canSpawn is queried, the orb is cleared *)

\* One pixel coordinate per cell column / row of the extended grid: the cell's
\* centre inside the viewport, the cell's lower edge left of / above it (negative
\* pixel coordinates), and one coordinate half a cell before the viewport origin.
PxInputs(cells, startCell) ==
    {(k - startCell) * CellPx * Q + (IF k >= startCell THEN (CellPx * Q) \div 2 ELSE 0) :
        k \in 0..(cells - 1)}
    \cup {-((CellPx * Q) \div 2)}
PxXInputs == PxInputs(GridW, StartCellX)
PxYInputs == PxInputs(GridH, StartCellY)
\* Continuous z: every whole layer and one half-way value.
ZInputs == {k * Q : k \in 0..(GridL - 1)} \cup {Q \div 2}
SizeInputs == 1..MaxSize

NoQuery == [asked |-> FALSE, pxX |-> 0, pxY |-> 0, z |-> 0, size |-> 1, result |-> FALSE]

NoOrb == [pxX |-> 0, pxY |-> 0, z |-> 0, vx |-> 0, vy |-> 0, vz |-> 0,
          speed |-> 0, size |-> 1, angle |-> [y |-> 0, x |-> 0]]

CollideIdle ==
    /\ cOrbs = <<NoOrb, NoOrb>> /\ cPre = <<NoOrb, NoOrb>>
    /\ cNormal = <<0, 0, 0>> /\ cResolver = "none"

NoCall == [op |-> "none", id |-> 0, pxX |-> 0, pxY |-> 0, z |-> 0, size |-> 1,
           sel |-> 0, done |-> FALSE]

ManagerIdle == selectedOrbIdRef = 0 /\ lastCall = NoCall /\ editCount = 0

NoPointer == <<>>

NoOffset == [x |-> 0, y |-> 0]

NoRepel == [called |-> FALSE, sampled |-> NoPointer, offset |-> NoOffset,
            handed |-> NoPointer]

OpsIdle == opCount = 0

PointerIdle ==
    mousePosRef = NoPointer /\ currentScrollOffsetRef = NoOffset /\ repelCall = NoRepel

MoveIdle == uOrb = NoOrb /\ uPre = NoOrb /\ uDts = <<>>

NoAnimator == [exists |-> FALSE, isRunning |-> FALSE, animationId |-> 0]

LoopIdle ==
    /\ visible = FALSE /\ loopMounted = FALSE /\ hasGridConfig = FALSE
    /\ hasStartedRef = FALSE /\ hasAnimatedRef = FALSE /\ loopIdRef = 0
    /\ animatorRef = NoAnimator /\ rafPending = {} /\ rafNextId = 1
    /\ onLoopCalls = 0 /\ cleanedUp = FALSE

NoResult == [called |-> FALSE, dt60 |-> 0, blocked |-> FALSE, reflectX |-> FALSE,
             reflectY |-> FALSE, reflectZ |-> FALSE, reflected |-> NoOrb]

CheckIdle == kOrb = NoOrb /\ kGrid = BorderGrid /\ kResult = NoResult

NoFlagCall == [op |-> "none", flag |-> 0, arg |-> 0]

FlagIdle == flagCell = 0 /\ flagCall = NoFlagCall /\ flagCount = 0

NoLimitCall == [called |-> FALSE, rate |-> 0, dt60 |-> 0]

LimitIdle == lOrb = NoOrb /\ lPre = NoOrb /\ lCall = NoLimitCall

\* null in gridRef.current and in viewportCellsRef.current
NoGrid == [id |-> 0, config |-> [width |-> 0, height |-> 0], border |-> FALSE,
           cleanHasBorder |-> FALSE]
NoVpc == [id |-> 0, config |-> [width |-> 0, height |-> 0]]

NoUse == [used |-> FALSE, grid |-> NoGrid, vpc |-> NoVpc]

NoFrame == [called |-> FALSE, grid |-> NoGrid, vpc |-> NoVpc, physics |-> NoUse,
            render |-> NoUse]

RefsIdle == builtGrid = NoGrid /\ builtVpc = NoVpc /\ loopFrame = NoFrame

AuxIdle ==
    /\ OpsIdle /\ PointerIdle /\ MoveIdle /\ LoopIdle
    /\ CheckIdle /\ FlagIdle /\ LimitIdle /\ RefsIdle

IdleContext ==
    [easedProgress |-> Q, dt60 |-> 1, pausePhysics |-> FALSE, mousePos |-> NoPointer,
     disableAvoidance |-> FALSE, disableCollisions |-> FALSE,
     enableOrbSpawning |-> TRUE, enableOrbDespawning |-> TRUE, isPageVisible |-> TRUE]

FrameIdle ==
    /\ orbsRef = <<>> /\ fGrid = BorderGrid /\ pc = "idle" /\ fCtx = IdleContext
    /\ phaseLog = <<>> /\ fNow = 0 /\ frameCount = 0 /\ revealDone = FALSE
    /\ speedLimitRan = FALSE /\ expLeft = {} /\ spawnSaw = {} /\ nextOrbId = 1
    /\ pausedFrames = 0

BurstIdle ==
    /\ mounted = FALSE /\ triggerBurst = FALSE /\ committedTrigger = FALSE
    /\ windowSize = [width |-> 0, height |-> 0]
    /\ committedSize = [width |-> 0, height |-> 0]
    /\ gridRef = 0 /\ viewportCellsRef = 0
    /\ windowSizeRef = [width |-> 0, height |-> 0]
    /\ hasBurstRef = FALSE /\ burstTimeRef = FALSE
    /\ retryQueue = <<>> /\ burstCalls = <<>> /\ chainsStarted = FALSE
    /\ resizeCount = 0 /\ toggleCount = 0

GridInit ==
    /\ BurstIdle /\ CollideIdle /\ FrameIdle /\ ManagerIdle /\ AuxIdle
    /\ grid = BorderGrid
    /\ gOrb \in [pxX : PxXInputs, pxY : PxYInputs, z : ZInputs, size : SizeInputs]
    /\ gPhase = "clean"
    /\ spawnQuery = NoQuery

MarkOrb ==
    /\ gPhase = "clean"
    /\ grid' = markOrbCircular(grid, gOrb)
    /\ gPhase' = "marked"
    /\ UNCHANGED <<gOrb, spawnQuery>>
    /\ UNCHANGED <<burstVars, collideVars, frameVars, managerVars, auxVars>>

\* One canSpawn call is recorded per marking.
CanSpawnCall ==
    /\ gPhase = "marked"
    /\ spawnQuery = NoQuery
    /\ \E x \in PxXInputs, y \in PxYInputs, z \in ZInputs, s \in SizeInputs :
          spawnQuery' = [asked |-> TRUE, pxX |-> x, pxY |-> y, z |-> z, size |-> s,
                         result |-> canSpawn(x, y, z, s, grid)]
    /\ UNCHANGED <<grid, gOrb, gPhase>>
    /\ UNCHANGED <<burstVars, collideVars, frameVars, managerVars, auxVars>>

\* The paired clear, at the position the orb was marked at.
ClearOrb ==
    /\ gPhase = "marked"
    /\ spawnQuery = NoQuery
    /\ grid' = clearOrbCircular(grid, gOrb)
    /\ gPhase' = "cleared"
    /\ UNCHANGED <<gOrb, spawnQuery>>
    /\ UNCHANGED <<burstVars, collideVars, frameVars, managerVars, auxVars>>

GridNext == MarkOrb \/ CanSpawnCall \/ ClearOrb

SpecGrid == GridInit /\ [][GridNext]_vars

-----------------------------------------------------------------------------
(* useOrbBurst and useGridInitialization *)

NoSize == [width |-> 0, height |-> 0]
WindowSizes == {NoSize, [width |-> 800, height |-> 600], [width |-> 1600, height |-> 900]}
ScrollOffsets == {[x |-> 0, y |-> 0], [x |-> 12, y |-> -8]}

\* Locals of a checkAndBurst invocation; direct = called from the effect body.
NoLocals == [direct |-> TRUE, grid |-> 0, vpc |-> 0, width |-> 0]

\* useGridInitialization effect (deps windowWidth, windowHeight): a changed size
\* with width # 0 builds a new grid and viewport cells and publishes both refs.
GridAfterEffect(sizeChanged, ws, g) ==
    IF sizeChanged /\ ws.width # 0 THEN g + 1 ELSE g

\* if (hasBurstRef.current) return;
AlreadyBurst_Unchecked(has) == FALSE

AlreadyBurst(has) == has

\* The grid and viewport cells handed to spawnOrbBurst.
BurstArgs_Cached(g, v, prev) ==
    IF prev.direct THEN [grid |-> g, vpc |-> v] ELSE [grid |-> prev.grid, vpc |-> prev.vpc]

BurstArgs(g, v, prev) == [grid |-> g, vpc |-> v]

\* requestAnimationFrame(checkAndBurst)
ScheduleRetry_Dropped(queue, locals) == queue

ScheduleRetry(queue, locals) == Append(queue, locals)

\* One invocation of checkAndBurst with the refs as they are now; prev are the
\* locals of the invocation that scheduled this one.  Returns the new values of
\* hasBurstRef, burstTimeRef, the retry queue and the spawnOrbBurst call log.
checkAndBurst(has, time, g, v, ws, queue, calls, prev, off) ==
    IF AlreadyBurst(has)
    THEN [has |-> has, time |-> time, queue |-> queue, calls |-> calls]
    ELSE IF g # 0 /\ v # 0 /\ ws.width > 0
         THEN [has   |-> TRUE,
               time  |-> TRUE,
               queue |-> queue,
               calls |-> Append(calls,
                           [centerX |-> (ws.width \div 2) - off.x,
                            centerY |-> (ws.height \div 2) - off.y,
                            grid    |-> BurstArgs(g, v, prev).grid,
                            vpc     |-> BurstArgs(g, v, prev).vpc,
                            prev    |-> prev])]
         ELSE [has |-> has, time |-> time, calls |-> calls,
               queue |-> ScheduleRetry(queue,
                           [direct |-> FALSE, grid |-> g, vpc |-> v, width |-> ws.width])]

\* window resize event: handleResize stores a changed size in React state.
Resize ==
    /\ mounted
    /\ resizeCount < MaxResizes
    /\ \E ws \in WindowSizes :
          /\ ws # windowSize
          /\ windowSize' = ws
    /\ resizeCount' = resizeCount + 1
    /\ UNCHANGED <<mounted, triggerBurst, committedTrigger, committedSize, gridRef,
                   viewportCellsRef, windowSizeRef, hasBurstRef, burstTimeRef,
                   retryQueue, burstCalls, chainsStarted, toggleCount>>
    /\ UNCHANGED <<gridVars, collideVars, frameVars, managerVars, auxVars>>

\* The parent changes the triggerBurst prop.
ToggleTrigger ==
    /\ toggleCount < MaxToggles
    /\ triggerBurst' = ~triggerBurst
    /\ toggleCount' = toggleCount + 1
    /\ UNCHANGED <<mounted, committedTrigger, windowSize, committedSize, gridRef,
                   viewportCellsRef, windowSizeRef, hasBurstRef, burstTimeRef,
                   retryQueue, burstCalls, chainsStarted, resizeCount>>
    /\ UNCHANGED <<gridVars, collideVars, frameVars, managerVars, auxVars>>

\* React flushes the effects of one commit, in hook order: the grid
\* initialization effect, the windowSizeRef sync, the burst effect.
FlushEffects ==
    LET sizeChanged    == ~mounted \/ windowSize # committedSize
        triggerChanged == ~mounted \/ triggerBurst # committedTrigger
        g   == GridAfterEffect(sizeChanged, windowSize, gridRef)
        v   == GridAfterEffect(sizeChanged, windowSize, viewportCellsRef)
        run == triggerChanged /\ triggerBurst /\ ~hasBurstRef
    IN  /\ sizeChanged \/ triggerChanged
        /\ mounted' = TRUE
        /\ committedSize' = windowSize
        /\ committedTrigger' = triggerBurst
        /\ gridRef' = g
        /\ viewportCellsRef' = v
        /\ windowSizeRef' = windowSize
        /\ chainsStarted' = (chainsStarted \/ run)
        /\ \E off \in ScrollOffsets :
              LET r == IF run
                       THEN checkAndBurst(hasBurstRef, burstTimeRef, g, v, windowSize,
                                          retryQueue, burstCalls, NoLocals, off)
                       ELSE [has |-> hasBurstRef, time |-> burstTimeRef,
                             queue |-> retryQueue, calls |-> burstCalls]
              IN  /\ hasBurstRef' = r.has
                  /\ burstTimeRef' = r.time
                  /\ retryQueue' = r.queue
                  /\ burstCalls' = r.calls
        /\ UNCHANGED <<triggerBurst, windowSize, resizeCount, toggleCount>>
        /\ UNCHANGED <<gridVars, collideVars, frameVars, managerVars, auxVars>>

\* The display refresh runs the oldest pending checkAndBurst callback.
RefreshCallback ==
    /\ retryQueue # <<>>
    /\ \E off \in ScrollOffsets :
          LET r == checkAndBurst(hasBurstRef, burstTimeRef, gridRef, viewportCellsRef,
                                 windowSizeRef, Tail(retryQueue), burstCalls,
                                 Head(retryQueue), off)
          IN  /\ hasBurstRef' = r.has
              /\ burstTimeRef' = r.time
              /\ retryQueue' = r.queue
              /\ burstCalls' = r.calls
    /\ UNCHANGED <<mounted, triggerBurst, committedTrigger, windowSize, committedSize,
                   gridRef, viewportCellsRef, windowSizeRef, chainsStarted,
                   resizeCount, toggleCount>>
    /\ UNCHANGED <<gridVars, collideVars, frameVars, managerVars, auxVars>>

GridIdle ==
    /\ grid = BorderGrid
    /\ gOrb = [pxX |-> 0, pxY |-> 0, z |-> 0, size |-> 1]
    /\ gPhase = "idle"
    /\ spawnQuery = NoQuery

BurstInit ==
    /\ GridIdle /\ CollideIdle /\ FrameIdle /\ ManagerIdle /\ AuxIdle
    /\ mounted = FALSE
    /\ triggerBurst \in BOOLEAN
    /\ committedTrigger = FALSE
    /\ windowSize = NoSize
    /\ committedSize = NoSize
    /\ gridRef = 0 /\ viewportCellsRef = 0
    /\ windowSizeRef = NoSize
    /\ hasBurstRef = FALSE /\ burstTimeRef = FALSE
    /\ retryQueue = <<>> /\ burstCalls = <<>> /\ chainsStarted = FALSE
    /\ resizeCount = 0 /\ toggleCount = 0

BurstNext == Resize \/ ToggleTrigger \/ FlushEffects \/ RefreshCallback

SpecBurst == BurstInit /\ [][BurstNext]_vars

\* Display-refresh callbacks keep firing and React flushes pending effects.
SpecBurstFair ==
    /\ SpecBurst
    /\ WF_vars(RefreshCallback)
    /\ WF_vars(FlushEffects)

-----------------------------------------------------------------------------
(* Pairwise collision resolution: OrbOrbCollision and CollisionSystem *)

cellSizeXPx == CellPx
cellSizeYPx == CellPx

\* Math.atan2(y, x): the angle is kept as its argument pair.
Atan2(y, x) == [y |-> y, x |-> x]

elasticity == (8 * Q) \div 10
minSeparationSpeed == 20 * Q

\* Centre-to-centre vector from orbA to orbB in cells, by pxX * vpc.invCellSizeXPx.
CellDelta(orbA, orbB) ==
    << TruncDiv(orbB.pxX, cellSizeXPx) - TruncDiv(orbA.pxX, cellSizeXPx),
       TruncDiv(orbB.pxY, cellSizeYPx) - TruncDiv(orbA.pxY, cellSizeYPx),
       orbB.z - orbA.z >>

NormSq(d) == d[1] * d[1] + d[2] * d[2] + d[3] * d[3]

\* Variant that lets bodies touch: the sum of the radii without the extra cell.
minDistOf_Radii(orbA, orbB) == (orbA.size - 1) + (orbB.size - 1)

\* minDist = radiusA + radiusB + 1
minDistOf(orbA, orbB) == (orbA.size - 1) + (orbB.size - 1) + 1

\* distSq < minDist * minDist
Overlapping(orbA, orbB) ==
    NormSq(CellDelta(orbA, orbB)) < (minDistOf(orbA, orbB) * Q) * (minDistOf(orbA, orbB) * Q)

\* distSq < 0.001
ZeroDistance(orbA, orbB) == NormSq(CellDelta(orbA, orbB)) * 1000 < Q * Q

Dot(u, n) == TruncDiv(u[1] * n[1] + u[2] * n[2] + u[3] * n[3], Q)

RelVel(orbA, orbB) == <<orbA.vx - orbB.vx, orbA.vy - orbB.vy, orbA.vz - orbB.vz>>

\* Lines 39-89 of resolveCollisions, shared with OrbAvoidance.applyRepulsion:
\* distance, cell-space direction and pixel-space unit normal of the pair; rnd
\* is the unit direction drawn from Math.random for a zero-distance pair.
PairGeometry(orbA, orbB, rnd) ==
    With(CellDelta(orbA, orbB), LAMBDA d :
    With(NormSq(d), LAMBDA distSq :
    With(IF distSq * 1000 < Q * Q THEN Q \div 1000 ELSE Sqrt(distSq), LAMBDA dist :
    With(IF distSq * 1000 < Q * Q THEN rnd
         ELSE <<Fd(d[1], dist), Fd(d[2], dist), Fd(d[3], dist)>>, LAMBDA nCell :
    With(<<nCell[1] * cellSizeXPx, nCell[2] * cellSizeYPx, nCell[3]>>, LAMBDA nPx :
    With(Sqrt(NormSq(nPx)), LAMBDA lenPx :
        [distSq |-> distSq, dist |-> dist, nCell |-> nCell,
         n |-> IF lenPx * 1000 > Q
               THEN <<Fd(nPx[1], lenPx), Fd(nPx[2], lenPx), Fd(nPx[3], lenPx)>>
               ELSE <<0, 0, 0>>]))))))

\* Lines 91-171 of resolveCollisions: position correction, velocity
\* resolution and angle update, for the geometry geo of the pair.
ResolveOverlap(orbA, orbB, geo) ==
    LET minDist == minDistOf(orbA, orbB)
        nCell   == geo.nCell
        n       == geo.n
        massA   == orbA.size
        massB   == orbB.size
        totalMass == massA + massB
        overlap == minDist * Q - geo.dist
        overlapRatio == IF overlap > 0 THEN TruncDiv(overlap, minDist) ELSE 0
        separationMultiplier == (12 * Q) \div 10 + TruncDiv(8 * overlapRatio, 10)
        separationA == Fx(TruncDiv(overlap * massB, totalMass), separationMultiplier)
        separationB == Fx(TruncDiv(overlap * massA, totalMass), separationMultiplier)
        dvn     == Dot(RelVel(orbA, orbB), n)
        bounceA == Fx(TruncDiv(elasticity * massB, totalMass), dvn)
        bounceB == Fx(TruncDiv(elasticity * massA, totalMass), dvn)
        separationImpulse == Fx(minSeparationSpeed, overlapRatio)
        unstickA == Fx(separationImpulse, Fd(massB, totalMass))
        unstickB == Fx(separationImpulse, Fd(massA, totalMass))
        zScale  == (5 * Q) \div 100
        stuck   == overlapRatio * 10 > 3 * Q
        Move(orb, sign, separation) ==
            IF overlap > 0
            THEN [orb EXCEPT !.pxX = @ + sign * Fx(nCell[1], separation) * cellSizeXPx,
                             !.pxY = @ + sign * Fx(nCell[2], separation) * cellSizeYPx,
                             !.z   = @ + sign * Fx(nCell[3], separation)]
            ELSE orb
        Bounce(orb, sign, bounce, unstick) ==
            IF dvn > 0
            THEN [orb EXCEPT !.vx = @ + sign * Fx(bounce, n[1]),
                             !.vy = @ + sign * Fx(bounce, n[2]),
                             !.vz = @ + sign * Fx(bounce, n[3])]
            ELSE IF stuck
            THEN [orb EXCEPT !.vx = @ + sign * Fx(unstick, n[1]),
                             !.vy = @ + sign * Fx(unstick, n[2]),
                             !.vz = @ + sign * Fx(Fx(unstick, n[3]), zScale)]
            ELSE orb
        Turn(orb) == [orb EXCEPT !.angle = Atan2(orb.vy, orb.vx)]
    IN  With(Bounce(Move(orbA, -1, separationA), -1, bounceA, unstickA), LAMBDA velA :
        With(Bounce(Move(orbB, 1, separationB), 1, bounceB, unstickB), LAMBDA velB :
            [a |-> Turn(velA), b |-> Turn(velB), n |-> n]))

\* OrbOrbCollision.resolveCollisions for the pair (orbA, orbB).
resolveCollisions(orbA, orbB, rnd) ==
    IF Overlapping(orbA, orbB)
    THEN With(PairGeometry(orbA, orbB, rnd), LAMBDA geo : ResolveOverlap(orbA, orbB, geo))
    ELSE [a |-> orbA, b |-> orbB, n |-> <<0, 0, 0>>]

\* Lines 313-344 of resolveOrbOrbCollisions, for the cell-space normal n.
LegacyImpulse(orbA, orbB, n) ==
    LET massA   == orbA.size
        massB   == orbB.size
        totalMass == massA + massB
        dvn     == Dot(RelVel(orbA, orbB), n)
        impulseA == Fx(Fd(2 * massB, totalMass), dvn)
        impulseB == Fx(Fd(2 * massA, totalMass), dvn)
    IN  IF dvn > 0
        THEN [a |-> [orbA EXCEPT !.vx = @ - Fx(impulseA, n[1]),
                                 !.vy = @ - Fx(impulseA, n[2]),
                                 !.vz = @ - Fx(impulseA, n[3])],
              b |-> [orbB EXCEPT !.vx = @ + Fx(impulseB, n[1]),
                                 !.vy = @ + Fx(impulseB, n[2]),
                                 !.vz = @ + Fx(impulseB, n[3])],
              n |-> n]
        ELSE [a |-> orbA, b |-> orbB, n |-> n]

\* CollisionSystem.resolveOrbOrbCollisions for the pair (orbA, orbB).
resolveOrbOrbCollisions(orbA, orbB) ==
    IF Overlapping(orbA, orbB) /\ NormSq(CellDelta(orbA, orbB)) * 1000 > Q * Q
    THEN With(CellDelta(orbA, orbB), LAMBDA d :
         With(Sqrt(NormSq(d)), LAMBDA dist :
         With(<<Fd(d[1], dist), Fd(d[2], dist), Fd(d[3], dist)>>, LAMBDA n :
             LegacyImpulse(orbA, orbB, n))))
    ELSE [a |-> orbA, b |-> orbB, n |-> <<0, 0, 0>>]

\* Inputs: orbA sits in the middle of a cell, orbB at an offset from it (pixels
\* and layers, fixed-point): half a cell along X, the same position, half a cell
\* along a diagonal, half a layer along Z, one cell, two cells along a diagonal,
\* most of a cell to the left, and a fiftieth of a cell to the left (closer
\* than the zero-distance threshold).
PairOffsets ==
    { <<(CellPx * Q) \div 2, 0, 0>>,
      <<0, 0, 0>>,
      <<(3 * CellPx * Q) \div 10, (4 * CellPx * Q) \div 10, 0>>,
      <<0, 0, Q \div 2>>,
      <<CellPx * Q, 0, 0>>,
      <<(12 * CellPx * Q) \div 10, (16 * CellPx * Q) \div 10, 0>>,
      <<-((8 * CellPx * Q) \div 10), 0, 0>>,
      <<-((CellPx * Q) \div 50), 0, 0>> }

\* Velocities in pixels per second (vx, vy) and layers per second (vz).
PairVelocities ==
    { <<50 * Q, 0, 0>>, <<-(50 * Q), 0, 0>>, <<0, 0, 0>>,
      <<30 * Q, 40 * Q, 0>>, <<-(30 * Q), -(40 * Q), 0>>,
      <<0, 0, Q \div 2>>, <<0, 0, -(Q \div 2)>> }

\* Unit directions (cos a cos p, sin a cos p, sin p) a zero-distance pair may draw.
RandomDirections ==
    { <<Q, 0, 0>>, <<0, -Q, 0>>, <<(6 * Q) \div 10, 0, (8 * Q) \div 10>> }

MakeOrb(px, py, z, v, size) ==
    [pxX |-> px, pxY |-> py, z |-> z, vx |-> v[1], vy |-> v[2], vz |-> v[3],
     speed |-> Sqrt(v[1] * v[1] + v[2] * v[2]), size |-> size,
     angle |-> Atan2(v[2], v[1])]

CollideInit ==
    /\ GridIdle /\ BurstIdle /\ FrameIdle /\ ManagerIdle /\ AuxIdle
    /\ \E off \in PairOffsets, va \in PairVelocities, vb \in PairVelocities,
          sa \in SizeInputs, sb \in SizeInputs :
          LET ax == (5 * CellPx * Q) \div 2
              ay == (5 * CellPx * Q) \div 2
          IN  cOrbs = << MakeOrb(ax, ay, Q, va, sa),
                         MakeOrb(ax + off[1], ay + off[2], Q + off[3], vb, sb) >>
    /\ cPre = cOrbs
    /\ cNormal = <<0, 0, 0>>
    /\ cResolver = "none"

\* PhaseOrbInteraction's hard-collision step on the two-orb array.
ResolveHard ==
    /\ cResolver = "none"
    /\ \E rnd \in IF ZeroDistance(cOrbs[1], cOrbs[2]) /\ Overlapping(cOrbs[1], cOrbs[2])
                  THEN RandomDirections ELSE {<<Q, 0, 0>>} :
          LET r == resolveCollisions(cOrbs[1], cOrbs[2], rnd)
          IN  /\ cOrbs' = <<r.a, r.b>>
              /\ cNormal' = r.n
    /\ cPre' = cOrbs
    /\ cResolver' = "OrbOrbCollision"
    /\ UNCHANGED <<gridVars, burstVars, frameVars, managerVars, auxVars>>

\* The resolver kept on CollisionSystem, on the same array.
ResolveLegacy ==
    /\ cResolver = "none"
    /\ LET r == resolveOrbOrbCollisions(cOrbs[1], cOrbs[2])
       IN  /\ cOrbs' = <<r.a, r.b>>
           /\ cNormal' = r.n
    /\ cPre' = cOrbs
    /\ cResolver' = "CollisionSystem"
    /\ UNCHANGED <<gridVars, burstVars, frameVars, managerVars, auxVars>>

CollideNext == ResolveHard \/ ResolveLegacy

SpecCollide == CollideInit /\ [][CollideNext]_vars

-----------------------------------------------------------------------------
(* Per-orb physics: OrbPhysics, CollisionSystem.checkMove, OrbAvoidance *)

\* Speed configuration of the speed-limit phase (pixels per second, and the
\* per-frame deceleration rate).
baseMaxSpeed == 100 * Q
minMaxSpeed == 80 * Q
decelerationRate == Q \div 10

Max(a, b) == IF a >= b THEN a ELSE b

RECURSIVE Pow(_, _)
Pow(x, k) == IF k = 0 THEN Q ELSE Fx(x, Pow(x, k - 1))

\* Variant that integrates the two screen axes only.
updatePosition_Flat(orb, dt60) ==
    [orb EXCEPT !.pxX = @ + TruncDiv(orb.vx * dt60, 60),
                !.pxY = @ + TruncDiv(orb.vy * dt60, 60)]

\* OrbPhysics.updatePosition; dt60 is deltaTime * 60.
updatePosition(orb, dt60) ==
    [orb EXCEPT !.pxX = @ + TruncDiv(orb.vx * dt60, 60),
                !.pxY = @ + TruncDiv(orb.vy * dt60, 60),
                !.z   = @ + TruncDiv(orb.vz * dt60, 60)]

\* OrbPhysics.getMaxSpeed
getMaxSpeed(size, base, min) == Max(min, Fd(base, Sqrt(size * Q * Q)))

\* 3D speed with vz scaled to pixels, and the XY speed.
Speed3D(orb) == Sqrt(orb.vx * orb.vx + orb.vy * orb.vy + (orb.vz * 20) * (orb.vz * 20))

SpeedXY(orb) == Sqrt(orb.vx * orb.vx + orb.vy * orb.vy)

\* Variant that leaves every orb as it is.
applySpeedLimit_Off(orb, base, min, rate, dt60) == orb

\* Lines 69-86 of applySpeedLimit: the velocity is scaled so that the speed
\* moves from currentSpeed toward maxSpeed and the stored XY speed is updated.
Decelerate(orb, currentSpeed, maxSpeed, rate, dt60) ==
    LET smoothFactor == Q - Pow(Q - rate, dt60)
        newSpeed     == currentSpeed + Fx(maxSpeed - currentSpeed, smoothFactor)
        Scale(v)     == TruncDiv(v * newSpeed, currentSpeed)
    IN  With([orb EXCEPT !.vx = Scale(@), !.vy = Scale(@), !.vz = Scale(@)],
             LAMBDA scaled : [scaled EXCEPT !.speed = SpeedXY(scaled)])

\* Variant that scales the two screen axes and leaves vz as it is.
applySpeedLimit_PlanarScale(orb, base, min, rate, dt60) ==
    With(Speed3D(orb), LAMBDA currentSpeed :
    With(getMaxSpeed(orb.size, base, min), LAMBDA maxSpeed :
        IF currentSpeed * 1000 >= Q /\ currentSpeed > maxSpeed
        THEN [Decelerate(orb, currentSpeed, maxSpeed, rate, dt60) EXCEPT !.vz = orb.vz]
        ELSE orb))

\* OrbPhysics.applySpeedLimit
applySpeedLimit(orb, base, min, rate, dt60) ==
    With(Speed3D(orb), LAMBDA currentSpeed :
    With(getMaxSpeed(orb.size, base, min), LAMBDA maxSpeed :
        IF currentSpeed * 1000 < Q THEN orb
        ELSE IF currentSpeed > maxSpeed
             THEN Decelerate(orb, currentSpeed, maxSpeed, rate, dt60)
             ELSE orb))

\* CollisionSystem.checkMove
checkMove(orb, dt60, g) ==
    LET next      == updatePosition(orb, dt60)
        currCellX == centerCellX(orb)
        currCellY == centerCellY(orb)
        currLayer == centerLayer(orb)
        nextCellX == centerCellX(next)
        nextCellY == centerCellY(next)
        nextLayer == centerLayer(next)
        foot      == SphereOffsets(orb.size - 1)
        blockedX  == \E d \in foot :
                        GridIsBlocking(g, nextCellX + d[1], currCellY + d[2], currLayer + d[3])
        blockedY  == \E d \in foot :
                        GridIsBlocking(g, currCellX + d[1], nextCellY + d[2], currLayer + d[3])
        blockedZ  == \E d \in foot :
                        GridIsBlocking(g, currCellX + d[1], currCellY + d[2], nextLayer + d[3])
        blockedDiag == GridIsBlocking(g, nextCellX, nextCellY, nextLayer)
    IN  IF orb.size = 1
        THEN [blocked  |-> blockedX \/ blockedY \/ blockedZ \/ blockedDiag,
              reflectX |-> blockedX \/ (blockedDiag /\ nextCellX # currCellX),
              reflectY |-> blockedY \/ (blockedDiag /\ nextCellY # currCellY),
              reflectZ |-> blockedZ \/ (blockedDiag /\ nextLayer # currLayer)]
        ELSE [blocked  |-> blockedX \/ blockedY \/ blockedZ,
              reflectX |-> blockedX, reflectY |-> blockedY, reflectZ |-> blockedZ]

\* CollisionSystem.applyReflection
applyReflection(orb, reflectX, reflectY, reflectZ) ==
    [orb EXCEPT !.vx = IF reflectX THEN -@ ELSE @,
                !.vy = IF reflectY THEN -@ ELSE @,
                !.vz = IF reflectZ THEN -@ ELSE @]

repulsionStrength == 200 * Q

\* Lines 95-143 of applyRepulsion: the push on each orb of a pair whose
\* avoidance zones overlap, for the geometry geo of the pair.
RepelPair(orbA, orbB, geo, combinedAvoidance, combinedBody, dt60) ==
    LET dist    == geo.dist
        n       == geo.n
        overlap == IF dist > combinedBody
                   THEN Q - Fd(dist - combinedBody, combinedAvoidance - combinedBody)
                   ELSE Q
        forceMultiplier == IF dist > combinedBody THEN 1 ELSE 3
        acceleration == Fx(Fx(overlap, overlap), repulsionStrength) * forceMultiplier
        totalMass == orbA.size + orbB.size
        accelA  == Fx(acceleration, Fd(orbB.size, totalMass))
        accelB  == Fx(acceleration, Fd(orbA.size, totalMass))
        Turn(orb) == [orb EXCEPT !.angle = Atan2(orb.vy, orb.vx)]
    IN  With([orbA EXCEPT !.vx = @ - TruncDiv(Fx(accelA, n[1]) * dt60, 60),
                          !.vy = @ - TruncDiv(Fx(accelA, n[2]) * dt60, 60),
                          !.vz = @ - TruncDiv(Fx(accelA, n[3]) * dt60, 60)], LAMBDA pushedA :
        With([orbB EXCEPT !.vx = @ + TruncDiv(Fx(accelB, n[1]) * dt60, 60),
                          !.vy = @ + TruncDiv(Fx(accelB, n[2]) * dt60, 60),
                          !.vz = @ + TruncDiv(Fx(accelB, n[3]) * dt60, 60)], LAMBDA pushedB :
            [a |-> Turn(pushedA), b |-> Turn(pushedB)]))

\* OrbAvoidance.applyRepulsion for the pair (orbA, orbB).
applyRepulsion(orbA, orbB, dt60, rnd) ==
    LET radiusA == orbA.size - 1
        radiusB == orbB.size - 1
        combinedAvoidance == ((radiusA + 1) + (radiusB + 1)) * Q
        combinedBody      == (radiusA + radiusB + 1) * Q
    IN  With(PairGeometry(orbA, orbB, rnd), LAMBDA geo :
            IF geo.dist < combinedAvoidance
            THEN RepelPair(orbA, orbB, geo, combinedAvoidance, combinedBody, dt60)
            ELSE [a |-> orbA, b |-> orbB])

-----------------------------------------------------------------------------
(* Physics phases *)

SeqMap(Op(_), seq) == [i \in 1..Len(seq) |-> Op(seq[i])]

OrbIds(orbs) == {orbs[i].id : i \in 1..Len(orbs)}

RECURSIVE MarkEach(_, _, _)
MarkEach(g, orbs, i) ==
    IF i > Len(orbs) THEN g
    ELSE With(markOrbCircular(g, orbs[i]), LAMBDA marked : MarkEach(marked, orbs, i + 1))

\* PhaseGridMarking: the dynamic flags are reset and every orb is stamped.
MarkAll(orbs) == MarkEach(BorderGrid, orbs, 1)

\* MouseRepulsion.applyRepulsion on one orb: a push away from the pointer that
\* fades to nothing at mouseRadius.
mouseRadius == 2 * CellPx * Q
mouseStrength == 300 * Q

MouseRepel(orb, mouseX, mouseY, dt60) ==
    LET dx == orb.pxX - mouseX
        dy == orb.pxY - mouseY
    IN  With(Sqrt(dx * dx + dy * dy), LAMBDA dist :
        With(Fx(mouseStrength, Q - Fd(dist, mouseRadius)), LAMBDA force :
            IF dist > 0 /\ dist < mouseRadius
            THEN [orb EXCEPT !.vx = @ + TruncDiv(Fx(force, Fd(dx, dist)) * dt60, 60),
                             !.vy = @ + TruncDiv(Fx(force, Fd(dy, dist)) * dt60, 60)]
            ELSE orb))

\* PhaseMouseRepulsion.execute; scrollOffset is the parallax offset.
PhaseMouseRepulsion(orbs, mousePos, dt60, disableAvoidance, scrollOffset) ==
    IF ~disableAvoidance /\ mousePos # NoPointer
    THEN LET adjustedMouseX == mousePos[1] - scrollOffset.x
             adjustedMouseY == mousePos[2] - scrollOffset.y
             Repel(o) == MouseRepel(o, adjustedMouseX, adjustedMouseY, dt60)
         IN  SeqMap(Repel, orbs)
    ELSE orbs

\* PhaseSpeedLimit.execute
PhaseSpeedLimit(orbs, dt60) ==
    LET Limit(o) == applySpeedLimit(o, baseMaxSpeed, minMaxSpeed, decelerationRate, dt60)
    IN  SeqMap(Limit, orbs)

\* PhaseWander: the heading of every orb is turned by the drawn rotation
\* (cosine, sine); the speed is kept.
WanderTurns == { <<Q, 0>>, <<(96 * Q) \div 100, (28 * Q) \div 100>> }

PhaseWander(orbs, turn) ==
    LET Turn(o) ==
            LET nvx == Fx(o.vx, turn[1]) - Fx(o.vy, turn[2])
                nvy == Fx(o.vx, turn[2]) + Fx(o.vy, turn[1])
            IN  IF turn[2] = 0 THEN o
                ELSE [o EXCEPT !.vx = nvx, !.vy = nvy, !.angle = Atan2(nvy, nvx)]
    IN  SeqMap(Turn, orbs)

\* PhaseLayerAttraction: vz is pulled toward the orb's assigned layer.
layerPull == Q \div 2

PhaseLayerAttraction(orbs, dt60) ==
    LET Pull(o) == [o EXCEPT !.vz = @ + TruncDiv(Fx(o.layer * Q - o.z, layerPull) * dt60, 60)]
    IN  SeqMap(Pull, orbs)

\* The (i, j) pairs with i < j of the pairwise loops, in loop order.
RECURSIVE PairsFrom(_, _, _)
PairsFrom(i, j, n) ==
    IF i >= n THEN <<>>
    ELSE IF j > n THEN PairsFrom(i + 1, i + 2, n)
    ELSE <<<<i, j>>>> \o PairsFrom(i, j + 1, n)

PairsOf(n) == PairsFrom(1, 2, n)

RECURSIVE AvoidPairs(_, _, _, _, _)
AvoidPairs(orbs, pairs, k, dt60, rnd) ==
    IF k > Len(pairs) THEN orbs
    ELSE LET i == pairs[k][1]
             j == pairs[k][2]
         IN  With(applyRepulsion(orbs[i], orbs[j], dt60, rnd), LAMBDA r :
             With([orbs EXCEPT ![i] = r.a, ![j] = r.b], LAMBDA pushed :
                 AvoidPairs(pushed, pairs, k + 1, dt60, rnd)))

RECURSIVE CollidePairs(_, _, _, _)
CollidePairs(orbs, pairs, k, rnd) ==
    IF k > Len(pairs) THEN orbs
    ELSE LET i == pairs[k][1]
             j == pairs[k][2]
         IN  With(resolveCollisions(orbs[i], orbs[j], rnd), LAMBDA r :
             With([orbs EXCEPT ![i] = r.a, ![j] = r.b], LAMBDA resolved :
                 CollidePairs(resolved, pairs, k + 1, rnd)))

\* PhaseOrbInteraction.execute: soft avoidance, then hard collisions.
PhaseOrbInteraction(orbs, dt60, disableAvoidance, disableCollisions, rnd) ==
    With(PairsOf(Len(orbs)), LAMBDA pairs :
    With(IF disableAvoidance THEN orbs ELSE AvoidPairs(orbs, pairs, 1, dt60, rnd),
         LAMBDA avoided :
        IF disableCollisions THEN avoided ELSE CollidePairs(avoided, pairs, 1, rnd)))

\* PhaseWallCollision for one orb: its own stamp is lifted, the move is
\* checked, a blocked orb is reflected and a free (or embedded) one moves.
WallStep(orb, g, dt60) ==
    With(clearOrbCircular(g, orb), LAMBDA lifted :
    With(checkMove(orb, dt60, lifted), LAMBDA r :
    With(GridIsBlocking(lifted, centerCellX(orb), centerCellY(orb), centerLayer(orb)),
         LAMBDA embedded :
    With(IF r.blocked /\ ~embedded
         THEN applyReflection(orb, r.reflectX, r.reflectY, r.reflectZ)
         ELSE updatePosition(orb, dt60), LAMBDA moved :
        [orb |-> moved, grid |-> markOrbCircular(lifted, moved)]))))

RECURSIVE PhaseWallCollision(_, _, _, _)
PhaseWallCollision(orbs, g, dt60, i) ==
    IF i > Len(orbs) THEN [orbs |-> orbs, grid |-> g]
    ELSE With(WallStep(orbs[i], g, dt60), LAMBDA r :
         With([orbs EXCEPT ![i] = r.orb], LAMBDA stepped :
             PhaseWallCollision(stepped, r.grid, dt60, i + 1)))

\* The value of an object property that was never assigned.
Undefined == 0 - 1

\* PhaseExpiration: orbs older than their lifetime are cleared and removed.
\* With createdAt or lifetimeMs undefined the comparison is on NaN and false.
Expired(o, now) ==
    IF o.createdAt = Undefined \/ o.lifetimeMs = Undefined THEN FALSE
    ELSE now - o.createdAt > o.lifetimeMs

RECURSIVE ClearExpired(_, _, _, _)
ClearExpired(g, orbs, now, i) ==
    IF i > Len(orbs) THEN g
    ELSE With(IF Expired(orbs[i], now) THEN clearOrbCircular(g, orbs[i]) ELSE g,
              LAMBDA cleared : ClearExpired(cleared, orbs, now, i + 1))

PhaseExpiration(orbs, g, now, enableOrbDespawning) ==
    LET Alive(o) == ~Expired(o, now)
    IN  IF enableOrbDespawning
        THEN [orbs |-> SelectSeq(orbs, Alive), grid |-> ClearExpired(g, orbs, now, 1)]
        ELSE [orbs |-> orbs, grid |-> g]

-----------------------------------------------------------------------------
(* The frame callback: useRenderLoop.runLoop and usePhysicsLoop.runPhysics *)

Pointer == <<(3 * CellPx * Q) \div 2, (3 * CellPx * Q) \div 2>>

\* What one callback samples from its arguments and refs.
FrameContexts ==
    { IdleContext,
      [IdleContext EXCEPT !.dt60 = 2, !.mousePos = Pointer],
      [IdleContext EXCEPT !.pausePhysics = TRUE],
      [IdleContext EXCEPT !.easedProgress = Q \div 2],
      [IdleContext EXCEPT !.disableAvoidance = TRUE, !.disableCollisions = TRUE,
                          !.enableOrbSpawning = FALSE, !.enableOrbDespawning = FALSE] }

\* Variant that runs continuous spawn ahead of expiration.
PhaseAfter_SpawnBeforeExpiration(p, ctx) ==
    CASE p = "start"            -> IF ctx.easedProgress >= Q THEN "markInitial" ELSE "render"
      [] p = "markInitial"      -> IF ctx.pausePhysics THEN "render" ELSE "mouseRepulsion"
      [] p = "mouseRepulsion"   -> "speedLimit"
      [] p = "speedLimit"       -> "wander"
      [] p = "wander"           -> "layerAttraction"
      [] p = "layerAttraction"  -> "orbInteraction"
      [] p = "orbInteraction"   -> "wallCollision"
      [] p = "wallCollision"    -> "markFinal"
      [] p = "markFinal"        -> "continuousSpawn"
      [] p = "continuousSpawn"  -> "expiration"
      [] p = "expiration"       -> "render"
      [] p = "render"           -> "idle"

\* Variant that runs every phase whether or not physics is paused.
PhaseAfter_PauseIgnored(p, ctx) ==
    CASE p = "start"            -> IF ctx.easedProgress >= Q THEN "markInitial" ELSE "render"
      [] p = "markInitial"      -> "mouseRepulsion"
      [] p = "mouseRepulsion"   -> "speedLimit"
      [] p = "speedLimit"       -> "wander"
      [] p = "wander"           -> "layerAttraction"
      [] p = "layerAttraction"  -> "orbInteraction"
      [] p = "orbInteraction"   -> "wallCollision"
      [] p = "wallCollision"    -> "markFinal"
      [] p = "markFinal"        -> "expiration"
      [] p = "expiration"       -> "continuousSpawn"
      [] p = "continuousSpawn"  -> "render"
      [] p = "render"           -> "idle"

\* The step that follows step p inside one callback: runPhysics' two branches
\* and runLoop's render pass.
PhaseAfter(p, ctx) ==
    CASE p = "start"            -> IF ctx.easedProgress >= Q THEN "markInitial" ELSE "render"
      [] p = "markInitial"      -> IF ctx.pausePhysics THEN "render" ELSE "mouseRepulsion"
      [] p = "mouseRepulsion"   -> "speedLimit"
      [] p = "speedLimit"       -> "wander"
      [] p = "wander"           -> "layerAttraction"
      [] p = "layerAttraction"  -> "orbInteraction"
      [] p = "orbInteraction"   -> "wallCollision"
      [] p = "wallCollision"    -> "markFinal"
      [] p = "markFinal"        -> "expiration"
      [] p = "expiration"       -> "continuousSpawn"
      [] p = "continuousSpawn"  -> "render"
      [] p = "render"           -> "idle"

\* Bookkeeping shared by every step: log it and move to the next one.
Advance(p) ==
    /\ pc = p
    /\ pc' = PhaseAfter(p, fCtx)
    /\ phaseLog' = Append(phaseLog, p)

\* requestAnimationFrame fires runLoop(easedProgress, deltaTime).
FrameStart ==
    /\ pc = "idle"
    /\ frameCount < MaxFrames
    /\ \E ctx \in FrameContexts :
          /\ ctx.easedProgress < Q => ~revealDone
          /\ fCtx' = ctx
          /\ pc' = PhaseAfter("start", ctx)
          /\ revealDone' = (revealDone \/ ctx.easedProgress >= Q)
          /\ fNow' = fNow + (ctx.dt60 * 1000) \div 60
          /\ pausedFrames' = IF ctx.pausePhysics THEN pausedFrames + 1 ELSE 0
    /\ phaseLog' = <<>>
    /\ frameCount' = frameCount + 1
    /\ UNCHANGED <<orbsRef, fGrid, speedLimitRan, expLeft, spawnSaw, nextOrbId>>
    /\ UNCHANGED <<gridVars, burstVars, collideVars, managerVars, auxVars>>

MarkInitial ==
    /\ Advance("markInitial")
    /\ fGrid' = MarkAll(orbsRef)
    /\ UNCHANGED <<orbsRef, fCtx, fNow, frameCount, revealDone, speedLimitRan,
                   expLeft, spawnSaw, nextOrbId, pausedFrames>>
    /\ UNCHANGED <<gridVars, burstVars, collideVars, managerVars, auxVars>>

MouseRepulsionPhase ==
    /\ Advance("mouseRepulsion")
    /\ orbsRef' = PhaseMouseRepulsion(orbsRef, fCtx.mousePos, fCtx.dt60,
                                      fCtx.disableAvoidance, NoOffset)
    /\ UNCHANGED <<fGrid, fCtx, fNow, frameCount, revealDone, speedLimitRan,
                   expLeft, spawnSaw, nextOrbId, pausedFrames>>
    /\ UNCHANGED <<gridVars, burstVars, collideVars, managerVars, auxVars>>

SpeedLimitPhase ==
    /\ Advance("speedLimit")
    /\ orbsRef' = PhaseSpeedLimit(orbsRef, fCtx.dt60)
    /\ speedLimitRan' = TRUE
    /\ UNCHANGED <<fGrid, fCtx, fNow, frameCount, revealDone, expLeft, spawnSaw,
                   nextOrbId, pausedFrames>>
    /\ UNCHANGED <<gridVars, burstVars, collideVars, managerVars, auxVars>>

WanderPhase ==
    /\ Advance("wander")
    /\ \E turn \in WanderTurns : orbsRef' = PhaseWander(orbsRef, turn)
    /\ UNCHANGED <<fGrid, fCtx, fNow, frameCount, revealDone, speedLimitRan,
                   expLeft, spawnSaw, nextOrbId, pausedFrames>>
    /\ UNCHANGED <<gridVars, burstVars, collideVars, managerVars, auxVars>>

LayerAttractionPhase ==
    /\ Advance("layerAttraction")
    /\ orbsRef' = PhaseLayerAttraction(orbsRef, fCtx.dt60)
    /\ UNCHANGED <<fGrid, fCtx, fNow, frameCount, revealDone, speedLimitRan,
                   expLeft, spawnSaw, nextOrbId, pausedFrames>>
    /\ UNCHANGED <<gridVars, burstVars, collideVars, managerVars, auxVars>>

OrbInteractionPhase ==
    /\ Advance("orbInteraction")
    /\ \E rnd \in IF \E p \in (1..Len(orbsRef)) \X (1..Len(orbsRef)) :
                        p[1] < p[2] /\ ZeroDistance(orbsRef[p[1]], orbsRef[p[2]])
                  THEN RandomDirections ELSE {<<Q, 0, 0>>} :
          orbsRef' = PhaseOrbInteraction(orbsRef, fCtx.dt60, fCtx.disableAvoidance,
                                         fCtx.disableCollisions, rnd)
    /\ UNCHANGED <<fGrid, fCtx, fNow, frameCount, revealDone, speedLimitRan,
                   expLeft, spawnSaw, nextOrbId, pausedFrames>>
    /\ UNCHANGED <<gridVars, burstVars, collideVars, managerVars, auxVars>>

WallCollisionPhase ==
    /\ Advance("wallCollision")
    /\ LET r == PhaseWallCollision(orbsRef, fGrid, fCtx.dt60, 1)
       IN  /\ orbsRef' = r.orbs
           /\ fGrid' = r.grid
    /\ UNCHANGED <<fCtx, fNow, frameCount, revealDone, speedLimitRan, expLeft,
                   spawnSaw, nextOrbId, pausedFrames>>
    /\ UNCHANGED <<gridVars, burstVars, collideVars, managerVars, auxVars>>

MarkFinal ==
    /\ Advance("markFinal")
    /\ fGrid' = MarkAll(orbsRef)
    /\ UNCHANGED <<orbsRef, fCtx, fNow, frameCount, revealDone, speedLimitRan,
                   expLeft, spawnSaw, nextOrbId, pausedFrames>>
    /\ UNCHANGED <<gridVars, burstVars, collideVars, managerVars, auxVars>>

ExpirationPhase ==
    /\ Advance("expiration")
    /\ LET r == PhaseExpiration(orbsRef, fGrid, fNow, fCtx.enableOrbDespawning)
       IN  /\ orbsRef' = r.orbs
           /\ fGrid' = r.grid
           /\ expLeft' = OrbIds(r.orbs)
    /\ UNCHANGED <<fCtx, fNow, frameCount, revealDone, speedLimitRan, spawnSaw,
                   nextOrbId, pausedFrames>>
    /\ UNCHANGED <<gridVars, burstVars, collideVars, managerVars, auxVars>>

\* Continuous-spawn configuration: the target population of the modelled
\* viewport and the lifetime given to a spawned orb (milliseconds).
minOrbCount == 2
spawnLifetimeMs == 60 * 1000

CellCentrePx(c, startCell) == ((2 * (c - startCell) + 1) * CellPx * Q) \div 2

MidCellX == GridW \div 2
MidCellY == GridH \div 2

LiveOrb(id, px, py, z, v, size, createdAt, lifetimeMs) ==
    MakeOrb(px, py, z, v, size) @@
    [id |-> id, layer |-> MathRound(z), createdAt |-> createdAt, lifetimeMs |-> lifetimeMs]

\* Positions and velocity spawnRandomOrbs may draw.
SpawnSpots ==
    { <<CellCentrePx(1, StartCellX), CellCentrePx(1, StartCellY)>>,
      <<CellCentrePx(MidCellX, StartCellX), CellCentrePx(MidCellY, StartCellY)>> }

SpawnVelocity == <<120 * Q, 0, 0>>

\* PhaseContinuousSpawn: below the target, with spawning enabled, the page
\* visible and no burst settling, one orb is spawned where canSpawn allows it.
PhaseContinuousSpawn(orbs, g, ctx, now, burstTime, spot, id) ==
    IF ctx.enableOrbSpawning /\ ctx.isPageVisible /\ ~burstTime
       /\ Len(orbs) < minOrbCount /\ canSpawn(spot[1], spot[2], Q, 1, g)
    THEN With(LiveOrb(id, spot[1], spot[2], Q, SpawnVelocity, 1, now, spawnLifetimeMs),
              LAMBDA newOrb : [orbs |-> Append(orbs, newOrb),
                               grid |-> markOrbCircular(g, newOrb), nextId |-> id + 1])
    ELSE [orbs |-> orbs, grid |-> g, nextId |-> id]

ContinuousSpawnPhase ==
    /\ Advance("continuousSpawn")
    /\ spawnSaw' = OrbIds(orbsRef)
    /\ \E spot \in SpawnSpots :
          LET r == PhaseContinuousSpawn(orbsRef, fGrid, fCtx, fNow, burstTimeRef, spot,
                                        nextOrbId)
          IN  /\ orbsRef' = r.orbs
              /\ fGrid' = r.grid
              /\ nextOrbId' = r.nextId
    /\ UNCHANGED <<fCtx, fNow, frameCount, revealDone, speedLimitRan, expLeft,
                   pausedFrames>>
    /\ UNCHANGED <<gridVars, burstVars, collideVars, managerVars, auxVars>>

\* GridRenderer.draw and OrbVisualRenderer.draw read the grid and the orbs.
Render ==
    /\ Advance("render")
    /\ UNCHANGED <<orbsRef, fGrid, fCtx, fNow, frameCount, revealDone, speedLimitRan,
                   expLeft, spawnSaw, nextOrbId, pausedFrames>>
    /\ UNCHANGED <<gridVars, burstVars, collideVars, managerVars, auxVars>>

\* Live sets the field can hold when the frame loop starts.
InitialLiveSets ==
    LET cx == CellCentrePx(MidCellX, StartCellX)
        cy == CellCentrePx(MidCellY, StartCellY)
    IN  { << LiveOrb(1, cx, cy, Q, <<150 * Q, 0, 0>>, 1, 0, spawnLifetimeMs) >>,
          << LiveOrb(1, cx, cy, Q, <<50 * Q, 0, 0>>, 1, 0, spawnLifetimeMs),
             LiveOrb(2, cx + (8 * CellPx * Q) \div 10, cy, Q, <<-(50 * Q), 0, 0>>, 1, 0, 20) >>,
          << LiveOrb(1, cx + (42 * CellPx * Q) \div 100, cy, Q, <<60 * Q, 80 * Q, 0>>, 2, 0,
                     spawnLifetimeMs) >>,
          << LiveOrb(1, cx, cy, Q \div 2, <<30 * Q, 40 * Q, Q \div 2>>, 1, 0, 20) >> }

\* The field before the first callback: a live set, stamped on the grid.
FieldInit ==
    /\ GridIdle /\ BurstIdle /\ CollideIdle /\ AuxIdle
    /\ orbsRef \in InitialLiveSets
    /\ fGrid = MarkAll(orbsRef)
    /\ pc = "idle" /\ fCtx = IdleContext /\ phaseLog = <<>>
    /\ fNow = 0 /\ frameCount = 0 /\ revealDone = FALSE /\ speedLimitRan = FALSE
    /\ expLeft = OrbIds(orbsRef) /\ spawnSaw = OrbIds(orbsRef)
    /\ nextOrbId = Len(orbsRef) + 1
    /\ pausedFrames = 0

FrameInit == FieldInit /\ ManagerIdle

FrameNext ==
    \/ FrameStart \/ MarkInitial \/ MouseRepulsionPhase \/ SpeedLimitPhase \/ WanderPhase
    \/ LayerAttractionPhase \/ OrbInteractionPhase \/ WallCollisionPhase \/ MarkFinal
    \/ ExpirationPhase \/ ContinuousSpawnPhase \/ Render

SpecFrame == FrameInit /\ [][FrameNext]_vars

-----------------------------------------------------------------------------
(* useOrbManager: createOrb, deleteOrb, selectOrb *)

MaxEdits == 2     \* manager calls in one run

\* DEFAULT_ORB_SPAWN_CONFIG speed range (pixels per second)
minSpeed == 50 * Q
maxSpeed == 150 * Q

\* Headings createOrb may draw: cos and sin of theta, cos and sin of phi.
SpawnHeadings ==
    { [cosTheta |-> Q, sinTheta |-> 0, cosPhi |-> Q, sinPhi |-> 0],
      [cosTheta |-> 0, sinTheta |-> Q, cosPhi |-> (71 * Q) \div 100,
       sinPhi |-> (71 * Q) \div 100] }

\* Values of Math.random(), in [0, 1).
RandomDraws == {0, Q - 1}

\* What one createOrb call draws: a heading and the random number of the speed.
SpawnDraws ==
    { <<h, rnd>> \in SpawnHeadings \X RandomDraws : (h.sinPhi = 0) = (rnd = 0) }

\* The object literal of createOrb: it carries no createdAt and no lifetimeMs.
NewOrb(id, pxX, pxY, z, size, h, rnd) ==
    LET speed == minSpeed + Fx(rnd, maxSpeed - minSpeed)
    IN  [id |-> id, pxX |-> pxX, pxY |-> pxY, z |-> z,
         vx |-> Fx(Fx(h.cosTheta, h.cosPhi), speed),
         vy |-> Fx(Fx(h.sinTheta, h.cosPhi), speed),
         vz |-> TruncDiv(Fx(h.sinPhi, speed) * 5, 100),
         speed |-> speed, angle |-> Atan2(h.sinTheta, h.cosTheta), size |-> size,
         layer |-> MathRound(z), createdAt |-> Undefined, lifetimeMs |-> Undefined]

\* Variant that skips the canSpawn test.
SpawnAllowed_Unchecked(pxX, pxY, z, size, g) == TRUE

\* Line 64 of createOrb
SpawnAllowed(pxX, pxY, z, size, g) == canSpawn(pxX, pxY, z, size, g)

\* useOrbManager.createOrb
createOrb(pxX, pxY, z, size, g, orbs, sel, id, h, rnd) ==
    IF ~SpawnAllowed(pxX, pxY, z, size, g)
    THEN [orbs |-> orbs, grid |-> g, selected |-> sel, done |-> FALSE]
    ELSE With(NewOrb(id, pxX, pxY, z, size, h, rnd), LAMBDA newOrb :
            [orbs |-> Append(orbs, newOrb), grid |-> markOrbCircular(g, newOrb),
             selected |-> id, done |-> TRUE])

\* Variant that filters the array before it looks the orb up.
FindOrb_AfterFilter(orbs, id) == {}

\* orbsRef.current.find(o => o.id === id): the indices of the orb found.
FindOrb(orbs, id) ==
    IF \E i \in 1..Len(orbs) : orbs[i].id = id
    THEN {CHOOSE i \in 1..Len(orbs) :
              orbs[i].id = id /\ \A j \in 1..(i - 1) : orbs[j].id # id}
    ELSE {}

\* Variant that removes the orb and leaves the selection as it is.
deleteOrb_KeepSelection(id, g, orbs, sel) ==
    LET found == FindOrb(orbs, id)
        Keep(o) == o.id # id
    IN  IF found = {}
        THEN [orbs |-> orbs, grid |-> g, selected |-> sel, done |-> FALSE]
        ELSE [orbs |-> SelectSeq(orbs, Keep),
              grid |-> clearOrbCircular(g, orbs[CHOOSE i \in found : TRUE]),
              selected |-> sel, done |-> TRUE]

\* useOrbManager.deleteOrb
deleteOrb(id, g, orbs, sel) ==
    LET found == FindOrb(orbs, id)
        Keep(o) == o.id # id
    IN  IF found = {}
        THEN [orbs |-> orbs, grid |-> g, selected |-> sel, done |-> FALSE]
        ELSE [orbs |-> SelectSeq(orbs, Keep),
              grid |-> clearOrbCircular(g, orbs[CHOOSE i \in found : TRUE]),
              selected |-> IF sel = id THEN 0 ELSE sel, done |-> TRUE]

\* Click positions: the two spawn spots and a cell next to the middle one.
ClickSpots ==
    SpawnSpots \cup {<<CellCentrePx(MidCellX + 1, StartCellX), CellCentrePx(MidCellY, StartCellY)>>}

\* A click in debug mode calls createOrb between two frame callbacks.
CreateOrb ==
    /\ pc = "idle" /\ editCount < MaxEdits
    /\ \E spot \in ClickSpots, size \in SizeInputs, draw \in SpawnDraws :
          LET r == createOrb(spot[1], spot[2], Q, size, fGrid, orbsRef, selectedOrbIdRef,
                             nextOrbId, draw[1], draw[2])
          IN  /\ orbsRef' = r.orbs
              /\ fGrid' = r.grid
              /\ selectedOrbIdRef' = r.selected
              /\ nextOrbId' = IF r.done THEN nextOrbId + 1 ELSE nextOrbId
              /\ lastCall' = [op |-> "createOrb", id |-> nextOrbId, pxX |-> spot[1],
                              pxY |-> spot[2], z |-> Q, size |-> size,
                              sel |-> selectedOrbIdRef, done |-> r.done]
    /\ editCount' = editCount + 1
    /\ UNCHANGED <<pc, fCtx, phaseLog, fNow, frameCount, revealDone, speedLimitRan,
                   expLeft, spawnSaw, pausedFrames>>
    /\ UNCHANGED <<gridVars, burstVars, collideVars, auxVars>>

\* The debug panel calls deleteOrb with an id, live or not.
DeleteOrb ==
    /\ pc = "idle" /\ editCount < MaxEdits
    /\ \E id \in 1..nextOrbId :
          LET r == deleteOrb(id, fGrid, orbsRef, selectedOrbIdRef)
          IN  /\ orbsRef' = r.orbs
              /\ fGrid' = r.grid
              /\ selectedOrbIdRef' = r.selected
              /\ lastCall' = [NoCall EXCEPT !.op = "deleteOrb", !.id = id,
                                             !.sel = selectedOrbIdRef, !.done = r.done]
    /\ editCount' = editCount + 1
    /\ UNCHANGED <<pc, fCtx, phaseLog, fNow, frameCount, revealDone, speedLimitRan,
                   expLeft, spawnSaw, nextOrbId, pausedFrames>>
    /\ UNCHANGED <<gridVars, burstVars, collideVars, auxVars>>

\* useOrbManager.selectOrb with null or an id issued so far, live or not: the
\* panel lists the orbs of the last setOrbs, and the function stores the id it
\* is given without looking it up.
SelectOrb ==
    /\ pc = "idle" /\ editCount < MaxEdits
    /\ \E id \in (1..(nextOrbId - 1)) \cup {0} :
          /\ id # selectedOrbIdRef
          /\ selectedOrbIdRef' = id
          /\ lastCall' = [NoCall EXCEPT !.op = "selectOrb", !.id = id,
                                         !.sel = selectedOrbIdRef, !.done = TRUE]
    /\ editCount' = editCount + 1
    /\ UNCHANGED <<frameVars, gridVars, burstVars, collideVars, auxVars>>

\* What the callbacks between manager calls sample.
ManagerContexts ==
    { [IdleContext EXCEPT !.dt60 = 2],
      [IdleContext EXCEPT !.enableOrbSpawning = FALSE, !.enableOrbDespawning = FALSE] }

\* The wander draw of those callbacks: no turn.
ManagerTurn == <<Q, 0>>

\* usePhysicsLoop.runPhysics as one call: the state it leaves for the render
\* pass, for the random draws of the wander, interaction and spawn phases.
runPhysics(orbs, g, ctx, now, burstTime, id, turn, rnd, spot) ==
    IF ctx.easedProgress >= Q /\ ~ctx.pausePhysics
    THEN With(PhaseMouseRepulsion(orbs, ctx.mousePos, ctx.dt60, ctx.disableAvoidance,
                                  NoOffset), LAMBDA repelled :
         With(PhaseSpeedLimit(repelled, ctx.dt60), LAMBDA limited :
         With(PhaseWander(limited, turn), LAMBDA turned :
         With(PhaseLayerAttraction(turned, ctx.dt60), LAMBDA pulled :
         With(PhaseOrbInteraction(pulled, ctx.dt60, ctx.disableAvoidance,
                                  ctx.disableCollisions, rnd), LAMBDA pushed :
         With(PhaseWallCollision(pushed, MarkAll(orbs), ctx.dt60, 1), LAMBDA walled :
         With(PhaseExpiration(walled.orbs, MarkAll(walled.orbs), now,
                              ctx.enableOrbDespawning), LAMBDA kept :
             PhaseContinuousSpawn(kept.orbs, kept.grid, ctx, now, burstTime, spot, id))))))))
    ELSE IF ctx.easedProgress >= Q
    THEN [orbs |-> orbs, grid |-> MarkAll(orbs), nextId |-> id]
    ELSE [orbs |-> orbs, grid |-> g, nextId |-> id]

\* One requestAnimationFrame callback, start to end.
FrameCallback ==
    /\ pc = "idle" /\ frameCount < MaxFrames
    /\ \E ctx \in ManagerContexts, spot \in SpawnSpots :
          LET now == fNow + (ctx.dt60 * 1000) \div 60
              r   == runPhysics(orbsRef, fGrid, ctx, now, burstTimeRef, nextOrbId,
                                ManagerTurn, <<Q, 0, 0>>, spot)
          IN  /\ fCtx' = ctx
              /\ fNow' = now
              /\ orbsRef' = r.orbs
              /\ fGrid' = r.grid
              /\ nextOrbId' = r.nextId
    /\ frameCount' = frameCount + 1
    /\ UNCHANGED <<pc, phaseLog, revealDone, speedLimitRan, expLeft, spawnSaw, pausedFrames>>
    /\ UNCHANGED <<gridVars, burstVars, collideVars, managerVars, auxVars>>

\* The manager starts with no selection or with a live orb selected.
ManagerInit ==
    /\ FieldInit
    /\ selectedOrbIdRef \in OrbIds(orbsRef) \cup {0}
    /\ lastCall = NoCall /\ editCount = 0

ManagerNext == FrameCallback \/ CreateOrb \/ DeleteOrb \/ SelectOrb

SpecManager == ManagerInit /\ [][ManagerNext]_vars

-----------------------------------------------------------------------------
(* Sequences of OrbPhysics grid operations *)

MaxOps == 3

\* grid.setCell: the cell state is overwritten; out-of-range cells are ignored.
GridSetCell(g, x, y, l, state) ==
    IF InBounds(x, y, l) THEN [g EXCEPT ![<<x, y, l>>] = state] ELSE g

\* grid.removeCellFlag
GridRemoveCellFlag(g, x, y, l, flag) ==
    IF InBounds(x, y, l) THEN [g EXCEPT ![<<x, y, l>>] = removeCellFlag(@, flag)] ELSE g

\* OrbPhysics.markOrb
markOrb(g, orb) ==
    GridSetCell(g, centerCellX(orb), centerCellY(orb), centerLayer(orb), CELL_FILLED)

\* OrbPhysics.clearOrb
clearOrb(g, orb) ==
    LET cellX == centerCellX(orb)
        cellY == centerCellY(orb)
        layer == centerLayer(orb)
    IN  GridRemoveCellFlag(GridRemoveCellFlag(g, cellX, cellY, layer, CELL_FILLED),
                           cellX, cellY, layer, CELL_PROXIMITY)

\* Orbs the operations are applied to: centred on a border cell, next to the
\* border and in the middle of the grid, of every size.
OpOrbs ==
    [pxX : {CellCentrePx(GridW - 1, StartCellX), CellCentrePx(1, StartCellX),
            CellCentrePx(MidCellX, StartCellX)},
     pxY : {CellCentrePx(MidCellY, StartCellY)},
     z : {Q}, size : SizeInputs]

OpsInit ==
    /\ BurstIdle /\ CollideIdle /\ FrameIdle /\ ManagerIdle
    /\ PointerIdle /\ MoveIdle /\ LoopIdle /\ CheckIdle /\ FlagIdle /\ LimitIdle /\ RefsIdle
    /\ grid = BorderGrid /\ gOrb \in OpOrbs /\ gPhase = "clean" /\ spawnQuery = NoQuery
    /\ opCount = 0

MarkOrbOp ==
    /\ opCount < MaxOps
    /\ \E orb \in OpOrbs : gOrb' = orb /\ grid' = markOrb(grid, orb)
    /\ opCount' = opCount + 1
    /\ UNCHANGED <<gPhase, spawnQuery, pointerVars, moveVars, loopVars>>
    /\ UNCHANGED <<checkVars, flagVars, limitVars, refsVars>>
    /\ UNCHANGED <<burstVars, collideVars, frameVars, managerVars>>

MarkOrbCircularOp ==
    /\ opCount < MaxOps
    /\ \E orb \in OpOrbs : gOrb' = orb /\ grid' = markOrbCircular(grid, orb)
    /\ opCount' = opCount + 1
    /\ UNCHANGED <<gPhase, spawnQuery, pointerVars, moveVars, loopVars>>
    /\ UNCHANGED <<checkVars, flagVars, limitVars, refsVars>>
    /\ UNCHANGED <<burstVars, collideVars, frameVars, managerVars>>

ClearOrbOp ==
    /\ opCount < MaxOps
    /\ \E orb \in OpOrbs : gOrb' = orb /\ grid' = clearOrb(grid, orb)
    /\ opCount' = opCount + 1
    /\ UNCHANGED <<gPhase, spawnQuery, pointerVars, moveVars, loopVars>>
    /\ UNCHANGED <<checkVars, flagVars, limitVars, refsVars>>
    /\ UNCHANGED <<burstVars, collideVars, frameVars, managerVars>>

ClearOrbCircularOp ==
    /\ opCount < MaxOps
    /\ \E orb \in OpOrbs : gOrb' = orb /\ grid' = clearOrbCircular(grid, orb)
    /\ opCount' = opCount + 1
    /\ UNCHANGED <<gPhase, spawnQuery, pointerVars, moveVars, loopVars>>
    /\ UNCHANGED <<checkVars, flagVars, limitVars, refsVars>>
    /\ UNCHANGED <<burstVars, collideVars, frameVars, managerVars>>

OpsNext == MarkOrbOp \/ MarkOrbCircularOp \/ ClearOrbOp \/ ClearOrbCircularOp

SpecGridOps == OpsInit /\ [][OpsNext]_vars

-----------------------------------------------------------------------------
(* OrbField.targetOrbCount: the continuous-spawn target of a window size *)

\* DEFAULT_CONTINUOUS_SPAWN_CONFIG: 600 orbs on a 3840 x 2160 screen.
targetOrbCountAt4K == 600
referenceScreenArea == 3840 * 2160

\* Variant without the lower bound minOrbCount.
TargetOrbCount_NoFloor(width, height) ==
    LET areaPerOrb == referenceScreenArea \div targetOrbCountAt4K
    IN  (2 * (width * height) + areaPerOrb) \div (2 * areaPerOrb)

\* The useMemo body: Math.max(minOrbCount, Math.round(targetOrbCountAt4K *
\* (screenArea / referenceScreenArea))). The quotient is taken with numerator
\* and denominator divided by targetOrbCountAt4K, which divides
\* referenceScreenArea, so that the product stays within 32 bits.
TargetOrbCount(width, height) ==
    LET screenArea  == width * height
        areaPerOrb  == referenceScreenArea \div targetOrbCountAt4K
        scaledCount == (2 * screenArea + areaPerOrb) \div (2 * areaPerOrb)
    IN  Max(minOrbCount, scaledCount)

\* The memoized value of the current render.
targetOrbCount == TargetOrbCount(windowSize.width, windowSize.height)

\* window.innerWidth x window.innerHeight, 0 x 0 before mount.
TargetWindowSizes ==
    [width  : {0, 320, 640, 800, 1024, 1280, 1600, 1920, 2560, 3840, 5120},
     height : {0, 240, 480, 600, 720, 768, 900, 1080, 1440, 2160, 2880}]

TargetInit ==
    /\ GridIdle /\ BurstIdle /\ CollideIdle /\ FrameIdle /\ ManagerIdle /\ AuxIdle

\* handleResize: the window size state is replaced when it differs.
HandleResize ==
    /\ \E ws \in TargetWindowSizes :
          /\ ws # windowSize
          /\ windowSize' = ws
    /\ UNCHANGED <<mounted, triggerBurst, committedTrigger, committedSize, gridRef,
                   viewportCellsRef, windowSizeRef, hasBurstRef, burstTimeRef,
                   retryQueue, burstCalls, chainsStarted, resizeCount, toggleCount>>
    /\ UNCHANGED <<gridVars, collideVars, frameVars, managerVars, auxVars>>

TargetNext == HandleResize

SpecTarget == TargetInit /\ [][TargetNext]_vars

-----------------------------------------------------------------------------
(* The pointer and the parallax offset of a frame *)

\* Pointer positions the mouse and touch handlers store.
PointerSpots ==
    {Pointer, <<CellCentrePx(MidCellX, StartCellX), CellCentrePx(MidCellY, StartCellY)>>}

\* Values updateParallaxOffset leaves in currentScrollOffsetRef.current: none,
\* a vertical scroll offset (desktop) and a horizontal one (mobile).
ParallaxOffsets ==
    {NoOffset, [x |-> 0, y |-> -(CellPx * Q)], [x |-> (CellPx * Q) \div 2, y |-> 0]}

\* Settings a frame can find in the refs of its context.
PointerContexts ==
    {IdleContext, [IdleContext EXCEPT !.disableAvoidance = TRUE],
     [IdleContext EXCEPT !.pausePhysics = TRUE]}

\* The arguments MouseRepulsion.applyRepulsion receives from
\* PhaseMouseRepulsion.execute, NoPointer when it is not called.
RepulsionPointer(mousePos, disableAvoidance, scrollOffset) ==
    IF ~disableAvoidance /\ mousePos # NoPointer
    THEN <<mousePos[1] - scrollOffset.x, mousePos[2] - scrollOffset.y>>
    ELSE NoPointer

\* What runPhysics hands to the repulsion phase: line 76 passes mousePosRef.current
\* and no scroll offset, so the parameter takes its default.
RepelCallOf(ctx, offset) ==
    IF ctx.easedProgress >= Q /\ ~ctx.pausePhysics
       /\ ~ctx.disableAvoidance /\ ctx.mousePos # NoPointer
    THEN [called |-> TRUE, sampled |-> ctx.mousePos, offset |-> offset,
          handed |-> RepulsionPointer(ctx.mousePos, ctx.disableAvoidance, NoOffset)]
    ELSE NoRepel

\* handleGlobalMouseMove, handleGlobalTouchStart, handleGlobalTouchMove
MouseMove ==
    /\ \E p \in PointerSpots : p # mousePosRef /\ mousePosRef' = p
    /\ UNCHANGED <<currentScrollOffsetRef, repelCall, opsVars, moveVars, loopVars,
                   checkVars, flagVars, limitVars, refsVars>>
    /\ UNCHANGED <<gridVars, burstVars, collideVars, frameVars, managerVars>>

\* handleGlobalMouseLeave, handleGlobalTouchEnd
MouseLeave ==
    /\ mousePosRef # NoPointer
    /\ mousePosRef' = NoPointer
    /\ UNCHANGED <<currentScrollOffsetRef, repelCall, opsVars, moveVars, loopVars,
                   checkVars, flagVars, limitVars, refsVars>>
    /\ UNCHANGED <<gridVars, burstVars, collideVars, frameVars, managerVars>>

\* One frame callback: runLoop updates the parallax offset, then runs
\* runPhysics with the refs as they are.
PointerFrame ==
    /\ pc = "idle" /\ frameCount < MaxFrames
    /\ \E base \in PointerContexts, off \in ParallaxOffsets, spot \in SpawnSpots :
          LET ctx == [base EXCEPT !.mousePos = mousePosRef]
              now == fNow + (ctx.dt60 * 1000) \div 60
              r   == runPhysics(orbsRef, fGrid, ctx, now, burstTimeRef, nextOrbId,
                                ManagerTurn, <<Q, 0, 0>>, spot)
          IN  /\ currentScrollOffsetRef' = off
              /\ repelCall' = RepelCallOf(ctx, off)
              /\ fCtx' = ctx
              /\ fNow' = now
              /\ orbsRef' = r.orbs
              /\ fGrid' = r.grid
              /\ nextOrbId' = r.nextId
    /\ frameCount' = frameCount + 1
    /\ UNCHANGED <<pc, phaseLog, revealDone, speedLimitRan, expLeft, spawnSaw, pausedFrames>>
    /\ UNCHANGED <<mousePosRef, opsVars, moveVars, loopVars>>
    /\ UNCHANGED <<checkVars, flagVars, limitVars, refsVars>>
    /\ UNCHANGED <<gridVars, burstVars, collideVars, managerVars>>

PointerInit == FieldInit /\ ManagerIdle

PointerNext == MouseMove \/ MouseLeave \/ PointerFrame

SpecPointer == PointerInit /\ [][PointerNext]_vars

-----------------------------------------------------------------------------
(* OrbPhysics.updatePosition applied to one orb *)

MaxMoves == 2     \* updatePosition calls in one run
MaxDt60 == 2      \* largest deltaTime, in sixtieths of a second

\* Orbs handed to updatePosition: velocities of both signs, whole and
\* fractional, on every axis.
MoveOrbs ==
    {MakeOrb(CellCentrePx(MidCellX, StartCellX), CellCentrePx(MidCellY, StartCellY), Q,
             <<vx, vy, vz>>, 1) :
        vx \in {-(70 * Q), 0, 125 * Q + 7}, vy \in {45 * Q, -33},
        vz \in {0, Q \div 2, -7}}

MoveInit ==
    /\ GridIdle /\ BurstIdle /\ CollideIdle /\ FrameIdle /\ ManagerIdle
    /\ OpsIdle /\ PointerIdle /\ LoopIdle /\ CheckIdle /\ FlagIdle /\ LimitIdle /\ RefsIdle
    /\ uOrb \in MoveOrbs /\ uPre = uOrb /\ uDts = <<>>

UpdatePosition ==
    /\ Len(uDts) < MaxMoves
    /\ \E dt60 \in 0..MaxDt60 :
          /\ uOrb' = updatePosition(uOrb, dt60)
          /\ uDts' = Append(uDts, dt60)
    /\ UNCHANGED <<uPre, opsVars, pointerVars, loopVars, checkVars, flagVars, limitVars, refsVars>>
    /\ UNCHANGED <<gridVars, burstVars, collideVars, frameVars, managerVars>>

MoveNext == UpdatePosition

SpecMove == MoveInit /\ [][MoveNext]_vars

-----------------------------------------------------------------------------
(* useAnimationLoop and GridAnimator: the frame-callback chain *)

MaxLoopCalls == 5   \* invocations of onLoop in one run

\* requestAnimationFrame(fn): the request joins the pending ones under a new id.
Request(pending, id, fn) == pending \cup {[id |-> id, fn |-> fn]}

\* cancelAnimationFrame(id)
Cancel(pending, id) == {r \in pending : r.id # id}

\* Variant of stop() that leaves the animator running and its request pending.
AnimatorStop_Missing(animator, pending) == [animator |-> animator, pending |-> pending]

\* GridAnimator.stop, also for animatorRef.current = null (the ?. call).
AnimatorStop(animator, pending) ==
    IF ~animator.exists THEN [animator |-> animator, pending |-> pending]
    ELSE IF animator.animationId # 0
    THEN [animator |-> [animator EXCEPT !.isRunning = FALSE, !.animationId = 0],
          pending |-> Cancel(pending, animator.animationId)]
    ELSE [animator |-> [animator EXCEPT !.isRunning = FALSE], pending |-> pending]

\* The main effect of useAnimationLoop for the props of this render: it
\* creates and starts the GridAnimator once.
MainEffect(vis, cfg) ==
    IF hasStartedRef \/ ~vis \/ ~cfg
    THEN UNCHANGED <<hasStartedRef, animatorRef, rafPending, rafNextId>>
    ELSE /\ hasStartedRef' = TRUE
         /\ animatorRef' = [exists |-> TRUE, isRunning |-> TRUE, animationId |-> rafNextId]
         /\ rafPending' = Request(rafPending, rafNextId, "animate")
         /\ rafNextId' = rafNextId + 1

\* The component mounts: the effects run for the first time.
LoopMount ==
    /\ ~loopMounted /\ ~cleanedUp
    /\ loopMounted' = TRUE
    /\ MainEffect(visible, hasGridConfig)
    /\ UNCHANGED <<visible, hasGridConfig, hasAnimatedRef, loopIdRef, onLoopCalls, cleanedUp>>
    /\ UNCHANGED <<opsVars, pointerVars, moveVars, checkVars, flagVars, limitVars, refsVars>>
    /\ UNCHANGED <<gridVars, burstVars, collideVars, frameVars, managerVars>>

\* The parent changes visible: before mount the prop is only stored, after
\* mount the render is followed by the main effect ([visible, hasGridConfig]).
SetVisible ==
    /\ ~cleanedUp
    /\ visible' = ~visible
    /\ IF loopMounted THEN MainEffect(visible', hasGridConfig)
       ELSE UNCHANGED <<hasStartedRef, animatorRef, rafPending, rafNextId>>
    /\ UNCHANGED <<loopMounted, hasGridConfig, hasAnimatedRef, loopIdRef, onLoopCalls,
                   cleanedUp>>
    /\ UNCHANGED <<opsVars, pointerVars, moveVars, checkVars, flagVars, limitVars, refsVars>>
    /\ UNCHANGED <<gridVars, burstVars, collideVars, frameVars, managerVars>>

\* gridConfig becomes available or is withdrawn.
SetGridConfig ==
    /\ ~cleanedUp
    /\ hasGridConfig' = ~hasGridConfig
    /\ IF loopMounted THEN MainEffect(visible, hasGridConfig')
       ELSE UNCHANGED <<hasStartedRef, animatorRef, rafPending, rafNextId>>
    /\ UNCHANGED <<loopMounted, visible, hasAnimatedRef, loopIdRef, onLoopCalls, cleanedUp>>
    /\ UNCHANGED <<opsVars, pointerVars, moveVars, checkVars, flagVars, limitVars, refsVars>>
    /\ UNCHANGED <<gridVars, burstVars, collideVars, frameVars, managerVars>>

\* The browser runs a pending GridAnimator.animate request; done says whether
\* the reveal duration has elapsed (progress = 1).
AnimateFrame ==
    /\ onLoopCalls < MaxLoopCalls
    /\ \E req \in rafPending :
          /\ req.fn = "animate"
          /\ IF ~animatorRef.isRunning
             THEN /\ rafPending' = rafPending \ {req}
                  /\ UNCHANGED <<animatorRef, rafNextId, onLoopCalls, hasAnimatedRef,
                                 loopIdRef>>
             ELSE \E done \in BOOLEAN :
                  /\ onLoopCalls' = onLoopCalls + 1
                  /\ rafNextId' = rafNextId + 1
                  /\ IF ~done
                     THEN /\ animatorRef' = [animatorRef EXCEPT !.animationId = rafNextId]
                          /\ rafPending' = Request(rafPending \ {req}, rafNextId, "animate")
                          /\ UNCHANGED <<hasAnimatedRef, loopIdRef>>
                     ELSE /\ animatorRef' = [animatorRef EXCEPT !.isRunning = FALSE]
                          /\ hasAnimatedRef' = TRUE
                          /\ loopIdRef' = rafNextId
                          /\ rafPending' =
                                Request(rafPending \ {req}, rafNextId, "physicsLoop")
    /\ UNCHANGED <<visible, loopMounted, hasGridConfig, hasStartedRef, cleanedUp>>
    /\ UNCHANGED <<opsVars, pointerVars, moveVars, checkVars, flagVars, limitVars, refsVars>>
    /\ UNCHANGED <<gridVars, burstVars, collideVars, frameVars, managerVars>>

\* The browser runs a pending physicsLoop request.
PhysicsLoopFrame ==
    /\ onLoopCalls < MaxLoopCalls
    /\ \E req \in rafPending :
          /\ req.fn = "physicsLoop"
          /\ IF ~hasAnimatedRef
             THEN /\ rafPending' = rafPending \ {req}
                  /\ UNCHANGED <<rafNextId, onLoopCalls, loopIdRef>>
             ELSE /\ onLoopCalls' = onLoopCalls + 1
                  /\ loopIdRef' = rafNextId
                  /\ rafPending' = Request(rafPending \ {req}, rafNextId, "physicsLoop")
                  /\ rafNextId' = rafNextId + 1
    /\ UNCHANGED <<visible, loopMounted, hasGridConfig, hasStartedRef, hasAnimatedRef,
                   animatorRef, cleanedUp>>
    /\ UNCHANGED <<opsVars, pointerVars, moveVars, checkVars, flagVars, limitVars, refsVars>>
    /\ UNCHANGED <<gridVars, burstVars, collideVars, frameVars, managerVars>>

\* The component unmounts: the cleanup of the last effect runs.
LoopUnmount ==
    /\ loopMounted
    /\ LET stopped == AnimatorStop(animatorRef, rafPending)
       IN  /\ animatorRef' = stopped.animator
           /\ rafPending' = IF loopIdRef # 0 THEN Cancel(stopped.pending, loopIdRef)
                            ELSE stopped.pending
    /\ hasAnimatedRef' = FALSE
    /\ hasStartedRef' = FALSE
    /\ loopMounted' = FALSE
    /\ cleanedUp' = TRUE
    /\ UNCHANGED <<visible, hasGridConfig, loopIdRef, rafNextId, onLoopCalls>>
    /\ UNCHANGED <<opsVars, pointerVars, moveVars, checkVars, flagVars, limitVars, refsVars>>
    /\ UNCHANGED <<gridVars, burstVars, collideVars, frameVars, managerVars>>

LoopInit ==
    /\ GridIdle /\ BurstIdle /\ CollideIdle /\ FrameIdle /\ ManagerIdle
    /\ OpsIdle /\ PointerIdle /\ MoveIdle /\ CheckIdle /\ FlagIdle /\ LimitIdle /\ RefsIdle
    /\ visible \in BOOLEAN /\ hasGridConfig \in BOOLEAN
    /\ loopMounted = FALSE /\ hasStartedRef = FALSE /\ hasAnimatedRef = FALSE
    /\ loopIdRef = 0 /\ animatorRef = NoAnimator /\ rafPending = {} /\ rafNextId = 1
    /\ onLoopCalls = 0 /\ cleanedUp = FALSE

LoopNext ==
    \/ LoopMount \/ SetVisible \/ SetGridConfig \/ AnimateFrame \/ PhysicsLoopFrame
    \/ LoopUnmount

SpecLoop == LoopInit /\ [][LoopNext]_vars

-----------------------------------------------------------------------------
(* Claims about marking, clearing and spawn validation *)

\* floor(sqrt(size) + size), characterised without the square-root helper.
ShellRadiusOf(size) ==
    CHOOSE a \in size..(2 * size) :
        (a - size) * (a - size) <= size /\ (a + 1 - size) * (a + 1 - size) > size

OrbCentre == <<centerCellX(gOrb), centerCellY(gOrb), centerLayer(gOrb)>>

CellInOrbBody(c) ==
    CellDistSq(c, OrbCentre[1], OrbCentre[2], OrbCentre[3])
        <= (gOrb.size - 1) * (gOrb.size - 1)

CellInOrbShell(c) ==
    LET d == CellDistSq(c, OrbCentre[1], OrbCentre[2], OrbCentre[3])
    IN  /\ d > (gOrb.size - 1) * (gOrb.size - 1)
        /\ d <= ShellRadiusOf(gOrb.size) * ShellRadiusOf(gOrb.size)

\* C1: after markOrbCircular on a border-only grid every in-range body cell has
\* FILLED and every in-range shell cell has PROXIMITY; after the paired
\* clearOrbCircular none of them has either flag, every BORDER flag is as it
\* was, and the grid equals the grid before the mark.
C1_MarkClearRoundTrip ==
    /\ (gPhase = "marked" /\ ~spawnQuery.asked) =>
          \A c \in Cells :
             /\ CellInOrbBody(c) => hasCellFlag(grid[c], CELL_FILLED)
             /\ CellInOrbShell(c) => hasCellFlag(grid[c], CELL_PROXIMITY)
    /\ gPhase = "cleared" =>
          /\ \A c \in Cells :
                (CellInOrbBody(c) \/ CellInOrbShell(c)) =>
                    /\ ~hasCellFlag(grid[c], CELL_FILLED)
                    /\ ~hasCellFlag(grid[c], CELL_PROXIMITY)
          /\ \A c \in Cells :
                hasCellFlag(grid[c], CELL_BORDER) <=> hasCellFlag(BorderGrid[c], CELL_BORDER)
          /\ grid = BorderGrid

\* A multi-cell orb centred on a border cell has been marked and cleared.
C1_Witness ==
    /\ gPhase = "cleared"
    /\ gOrb.size >= 2
    /\ IsBorderCell(OrbCentre[1], OrbCentre[2])
    /\ grid = BorderGrid

QueryCentre ==
    <<CellOf(spawnQuery.pxX, CellPx, StartCellX),
      CellOf(spawnQuery.pxY, CellPx, StartCellY),
      MathRound(spawnQuery.z)>>

QueryInBody == spawnQuery.asked /\ QueryCentre \in Cells /\ CellInOrbBody(QueryCentre)
QueryInShell == spawnQuery.asked /\ QueryCentre \in Cells /\ CellInOrbShell(QueryCentre)

\* No cell of the candidate's own body footprint is a body cell of the marked
\* orb, a border cell, or outside the grid.
QueryFootprintFree ==
    \A d \in SphereOffsets(spawnQuery.size - 1) :
        LET c == <<QueryCentre[1] + d[1], QueryCentre[2] + d[2], QueryCentre[3] + d[3]>>
        IN  c \in Cells /\ ~IsBorderCell(c[1], c[2]) /\ ~CellInOrbBody(c)

\* C5 as stated: canSpawn is false for a candidate centred in the orb's body and
\* true for every candidate, of every size, centred in the orb's avoidance shell.
C5_AsStated ==
    /\ QueryInBody => ~spawnQuery.result
    /\ QueryInShell => spawnQuery.result

\* C5 amended: canSpawn is false for a candidate centred in the orb's body; for a
\* candidate centred in the avoidance shell it is true exactly when no cell of
\* the candidate's own footprint (radius size - 1) is a body cell of the orb, a
\* border cell or out of range.
C5_SpawnInShell ==
    /\ QueryInBody => ~spawnQuery.result
    /\ QueryInShell => (spawnQuery.result <=> QueryFootprintFree)

\* A multi-cell candidate centred in the shell was accepted.
C5_Witness ==
    /\ QueryInShell
    /\ spawnQuery.size >= 2
    /\ spawnQuery.result

-----------------------------------------------------------------------------
(* Claims about the burst trigger *)

BurstReady == gridRef # 0 /\ viewportCellsRef # 0 /\ windowSizeRef.width > 0

RetryPending == retryQueue # <<>>

\* C8: whatever the interleaving of triggerBurst changes, resizes that replace
\* the grid and display-refresh callbacks, spawnOrbBurst is invoked at most once.
C8_BurstAtMostOnce == Len(burstCalls) <= 1

\* C8 case: the burst has fired once after the trigger went false and true
\* again, a resize replaced the grid, and another retry callback is still pending.
C8_Witness ==
    /\ Len(burstCalls) = 1
    /\ RetryPending
    /\ toggleCount >= 2
    /\ gridRef >= 2

\* C9: a burst requested before grid, viewport cells and window width are
\* available is deferred to a display-refresh callback (a retry stays pending
\* until the burst has fired), and if the three eventually stay available the
\* pending retry leads to the burst.
C9_DeferredBurstFires ==
    /\ [](chainsStarted /\ ~hasBurstRef => RetryPending)
    /\ ((<>[]BurstReady) => [](RetryPending => <>(Len(burstCalls) > 0)))

\* C9 case: the burst was fired by a retry callback, not by the effect itself.
C9_Witness ==
    /\ Len(burstCalls) = 1
    /\ ~burstCalls[1].prev.direct
    /\ burstCalls[1].prev.grid = 0

\* C10: each spawnOrbBurst call receives the grid and viewport cells that are
\* published at the moment of the call, both non-null and built together; never
\* the ones a previous invocation of the retry chain had read.
C10_BurstUsesPublishedGrid ==
    [][Len(burstCalls') > Len(burstCalls) =>
          LET c == burstCalls'[Len(burstCalls')]
          IN  /\ c.grid # 0 /\ c.vpc # 0
              /\ c.grid = gridRef' /\ c.vpc = viewportCellsRef'
              /\ c.grid = c.vpc]_vars

\* C10 case: the retry that fired had last seen a grid which a resize has
\* replaced since.
C10_Witness ==
    /\ Len(burstCalls) = 1
    /\ ~burstCalls[1].prev.direct
    /\ burstCalls[1].prev.grid # 0
    /\ burstCalls[1].prev.grid # burstCalls[1].grid

-----------------------------------------------------------------------------
(* Claims about pairwise collision resolution *)

\* The pair as it entered the resolver overlapped and was approaching along the
\* normal the resolver used (n points from orbA to orbB).
PairWasApproaching ==
    /\ cResolver # "none"
    /\ Overlapping(cPre[1], cPre[2])
    /\ Dot(RelVel(cPre[1], cPre[2]), cNormal) > 0

\* C2: for every overlapping pair that was approaching along the collision
\* normal, after the resolver has processed the pair the relative velocity along
\* the same normal is <= 0, for all sizes.
C2_AsStated ==
    PairWasApproaching => Dot(RelVel(cOrbs[1], cOrbs[2]), cNormal) <= 0

\* C2 case: OrbOrbCollision.resolveCollisions has processed an approaching
\* overlapping pair of unequal sizes.
C2_Witness ==
    /\ PairWasApproaching
    /\ cResolver = "OrbOrbCollision"
    /\ cPre[1].size # cPre[2].size

\* Two size-1 orbs, overlapping, with equal and opposite non-zero velocities
\* directed along the line joining their centres, approaching.
HeadOnEqualPair ==
    LET d == CellDelta(cPre[1], cPre[2])
        v == <<cPre[1].vx, cPre[1].vy, cPre[1].vz>>
    IN  /\ cResolver # "none"
        /\ cPre[1].size = 1 /\ cPre[2].size = 1
        /\ Overlapping(cPre[1], cPre[2])
        /\ ~ZeroDistance(cPre[1], cPre[2])
        /\ cPre[2].vx = -cPre[1].vx /\ cPre[2].vy = -cPre[1].vy /\ cPre[2].vz = -cPre[1].vz
        /\ v[1] * d[2] = v[2] * d[1] /\ v[1] * d[3] = v[3] * d[1] /\ v[2] * d[3] = v[3] * d[2]
        /\ v[1] * d[1] + v[2] * d[2] + v[3] * d[3] > 0

\* C3: two size-1 orbs meeting head-on with velocities v and -v leave the
\* resolver with their velocities swapped (orbA ends with -v, orbB with v).
C3_AsStated ==
    HeadOnEqualPair =>
        /\ cOrbs[1].vx = cPre[2].vx /\ cOrbs[1].vy = cPre[2].vy /\ cOrbs[1].vz = cPre[2].vz
        /\ cOrbs[2].vx = cPre[1].vx /\ cOrbs[2].vy = cPre[1].vy /\ cOrbs[2].vz = cPre[1].vz

\* C3 case: OrbOrbCollision.resolveCollisions has processed such a head-on pair.
C3_Witness == HeadOnEqualPair /\ cResolver = "OrbOrbCollision"

\* What CollisionSystem.resolveOrbOrbCollisions does in the two cases.
LegacyResolverSeparates ==
    cResolver = "CollisionSystem" =>
        /\ C2_AsStated
        /\ C3_AsStated

-----------------------------------------------------------------------------
(* Claims about the frame callback *)

\* The steps of a callback in which physics runs, in the order of
\* runPhysics (usePhysicsLoop.ts 69-119) and of runLoop's render pass.
FullOrder ==
    << "markInitial", "mouseRepulsion", "speedLimit", "wander", "layerAttraction",
       "orbInteraction", "wallCollision", "markFinal", "expiration",
       "continuousSpawn", "render" >>

IsPrefix(s, t) == Len(s) <= Len(t) /\ SubSeq(t, 1, Len(s)) = s

\* The current callback found the reveal complete and physics not paused.
PhysicsRuns == fCtx.easedProgress >= Q /\ ~fCtx.pausePhysics

InCallback == pc # "idle" \/ frameCount > 0

CapOf(orb) == getMaxSpeed(orb.size, baseMaxSpeed, minMaxSpeed)

\* Rounding allowance of the fixed-point speeds (0.04 px/s).
SpeedTolerance == Q \div 25

\* C4 as stated: at the end of every frame in which physics ran, once the
\* speed-limit phase has run, every orb's XY speed is at most
\* max(minMaxSpeed, baseMaxSpeed / sqrt(size)).
C4_AsStated ==
    (pc = "idle" /\ speedLimitRan /\ PhysicsRuns /\ pausedFrames = 0)
        => \A i \in 1..Len(orbsRef) : SpeedXY(orbsRef[i]) <= CapOf(orbsRef[i]) + SpeedTolerance

\* C4, amended: the speed-limit phase leaves an orb whose 3D speed is at or
\* below its cap unchanged; a faster orb keeps its position, its 3D speed moves
\* toward the cap without crossing it (strictly down when the excess is more
\* than 1 px/s), and its speed field becomes its XY speed.
C4_SpeedDampedTowardCap ==
    [][(pc = "speedLimit" /\ pc' = "wander") =>
          /\ Len(orbsRef') = Len(orbsRef)
          /\ \A i \in 1..Len(orbsRef) :
                IF Speed3D(orbsRef[i]) <= CapOf(orbsRef[i])
                THEN orbsRef'[i] = orbsRef[i]
                ELSE /\ Speed3D(orbsRef'[i]) <= Speed3D(orbsRef[i])
                     /\ Speed3D(orbsRef'[i]) >= CapOf(orbsRef[i]) - SpeedTolerance
                     /\ Speed3D(orbsRef[i]) > CapOf(orbsRef[i]) + Q
                            => Speed3D(orbsRef'[i]) < Speed3D(orbsRef[i])
                     /\ orbsRef'[i].speed = SpeedXY(orbsRef'[i])
                     /\ orbsRef'[i].pxX = orbsRef[i].pxX
                     /\ orbsRef'[i].pxY = orbsRef[i].pxY
                     /\ orbsRef'[i].z = orbsRef[i].z]_vars

\* The speed-limit phase has just run and an orb is still faster than its cap.
C4_Witness ==
    /\ pc = "wander" /\ speedLimitRan
    /\ \E i \in 1..Len(orbsRef) :
          /\ SpeedXY(orbsRef[i]) > CapOf(orbsRef[i]) + Q
          /\ orbsRef[i].speed = SpeedXY(orbsRef[i])

\* C6: in a callback in which physics runs, the steps taken so far are a
\* prefix of the full order (each phase once, in order, the render pass last),
\* the callback ends only after all of them, and continuous spawn sees the
\* live set exactly as expiration left it in the same callback.
C6_PhasesInOrder ==
    (InCallback /\ PhysicsRuns) =>
        /\ IsPrefix(phaseLog, FullOrder)
        /\ pc # "idle" => pc = FullOrder[Len(phaseLog) + 1]
        /\ pc = "idle" => phaseLog = FullOrder
        /\ Len(phaseLog) >= 10 => spawnSaw = expLeft

\* A first callback with physics has ended in which expiration removed an orb
\* and continuous spawn then added one.
C6_Witness ==
    /\ pc = "idle" /\ frameCount = 1 /\ PhysicsRuns
    /\ phaseLog = FullOrder
    /\ nextOrbId - 1 > Len(orbsRef)
    /\ OrbIds(orbsRef) # spawnSaw
    /\ spawnSaw = expLeft

\* C7: every step of a callback that finds pausePhysics set leaves the orb
\* array as it is (no orb moved, changed, removed or added), and the only
\* steps such a callback takes are the initial marking and the render pass.
C7_PausedFrameOnlyMarks ==
    [][fCtx'.pausePhysics =>
          /\ orbsRef' = orbsRef
          /\ phaseLog' \in {<<>>, <<"markInitial">>, <<"markInitial", "render">>}]_vars

\* Two paused callbacks in a row have ended with a moving, expired orb still
\* in the array and the population below the spawn target.
C7_Witness ==
    /\ pc = "idle" /\ pausedFrames >= 2 /\ fCtx.pausePhysics
    /\ phaseLog = <<"markInitial", "render">>
    /\ fCtx.enableOrbSpawning /\ fCtx.enableOrbDespawning
    /\ Len(orbsRef) < minOrbCount
    /\ \E i \in 1..Len(orbsRef) :
          /\ Expired(orbsRef[i], fNow)
          /\ orbsRef[i].vx # 0

-----------------------------------------------------------------------------
(* Claims about the orb manager *)

\* The in-grid cells of an orb's body and of its avoidance shell.
BodyCellsOf(orb) ==
    {c \in Cells : CellDistSq(c, centerCellX(orb), centerCellY(orb), centerLayer(orb))
                       <= (orb.size - 1) * (orb.size - 1)}

ShellCellsOf(orb) ==
    {c \in Cells :
        LET d == CellDistSq(c, centerCellX(orb), centerCellY(orb), centerLayer(orb))
        IN  /\ d > (orb.size - 1) * (orb.size - 1)
            /\ d <= ShellRadiusOf(orb.size) * ShellRadiusOf(orb.size)}

IndexOfId(orbs, id) == {i \in 1..Len(orbs) : orbs[i].id = id}

WithoutId(orbs, id) == LET Keep(o) == o.id # id IN SelectSeq(orbs, Keep)

\* The step is one call of the named manager operation.
CallStep(op) == lastCall'.op = op /\ editCount' = editCount + 1

\* C11: deleteOrb(id) of a live orb leaves no FILLED on the orb's body cells and
\* no PROXIMITY on its shell cells (the footprint is cleared from the orb as it
\* still is in the array), leaves every other cell as it was, removes exactly
\* that orb, and sets the selection to null if id was selected and keeps it
\* otherwise; for an id that names no live orb the array, the grid and the
\* selection are unchanged.
C11_DeleteOrb ==
    [][CallStep("deleteOrb") =>
          IF IndexOfId(orbsRef, lastCall'.id) # {}
          THEN LET o == orbsRef[CHOOSE i \in IndexOfId(orbsRef, lastCall'.id) : TRUE]
               IN  /\ \A c \in BodyCellsOf(o) : ~hasCellFlag(fGrid'[c], CELL_FILLED)
                   /\ \A c \in ShellCellsOf(o) : ~hasCellFlag(fGrid'[c], CELL_PROXIMITY)
                   /\ \A c \in Cells \ (BodyCellsOf(o) \cup ShellCellsOf(o)) :
                         fGrid'[c] = fGrid[c]
                   /\ orbsRef' = WithoutId(orbsRef, lastCall'.id)
                   /\ lastCall'.id \notin OrbIds(orbsRef')
                   /\ selectedOrbIdRef' = IF selectedOrbIdRef = lastCall'.id
                                          THEN 0 ELSE selectedOrbIdRef
          ELSE /\ orbsRef' = orbsRef
               /\ fGrid' = fGrid
               /\ selectedOrbIdRef' = selectedOrbIdRef]_vars

\* The selected orb has been deleted while another orb stays live.
C11_Witness ==
    /\ lastCall.op = "deleteOrb" /\ lastCall.done
    /\ lastCall.sel = lastCall.id
    /\ selectedOrbIdRef = 0
    /\ lastCall.id \notin OrbIds(orbsRef)
    /\ orbsRef # <<>>

\* C12: createOrb at a position canSpawn rejects changes neither the array,
\* the selection nor the grid; at a position canSpawn accepts it appends exactly
\* one orb with that position and size and an id no orb has had, marks FILLED
\* on its body cells and PROXIMITY on its shell cells without removing any
\* flag, and gives it a speed in [minSpeed, maxSpeed].
C12_CreateOrb ==
    [][CallStep("createOrb") =>
          IF ~canSpawn(lastCall'.pxX, lastCall'.pxY, lastCall'.z, lastCall'.size, fGrid)
          THEN /\ orbsRef' = orbsRef
               /\ fGrid' = fGrid
               /\ selectedOrbIdRef' = selectedOrbIdRef
          ELSE /\ Len(orbsRef') = Len(orbsRef) + 1
               /\ SubSeq(orbsRef', 1, Len(orbsRef)) = orbsRef
               /\ LET new == orbsRef'[Len(orbsRef')]
                  IN  /\ new.pxX = lastCall'.pxX /\ new.pxY = lastCall'.pxY
                      /\ new.z = lastCall'.z /\ new.size = lastCall'.size
                      /\ new.id \notin OrbIds(orbsRef) /\ new.id >= nextOrbId
                      /\ nextOrbId' > new.id
                      /\ new.speed >= minSpeed /\ new.speed <= maxSpeed
                      /\ \A c \in BodyCellsOf(new) : hasCellFlag(fGrid'[c], CELL_FILLED)
                      /\ \A c \in ShellCellsOf(new) : hasCellFlag(fGrid'[c], CELL_PROXIMITY)
                      /\ \A c \in Cells : BitAnd(fGrid'[c], fGrid[c]) = fGrid[c]
                      /\ \A c \in Cells \ (BodyCellsOf(new) \cup ShellCellsOf(new)) :
                            fGrid'[c] = fGrid[c]]_vars

\* A size-2 orb has been created next to live orbs, faster than minSpeed.
C12_Witness ==
    /\ lastCall.op = "createOrb" /\ lastCall.done
    /\ Len(orbsRef) >= 2
    /\ orbsRef[Len(orbsRef)].id = lastCall.id
    /\ orbsRef[Len(orbsRef)].size = 2
    /\ orbsRef[Len(orbsRef)].speed > minSpeed

\* C13: every live orb, however it was created, has an expiry instant
\* createdAt + lifetimeMs, and no live orb is past it once an unpaused frame
\* with despawning enabled has run, so that every orb is removed in the end.
C13_AsStated ==
    \A i \in 1..Len(orbsRef) :
        /\ orbsRef[i].createdAt # Undefined
        /\ orbsRef[i].lifetimeMs # Undefined
        /\ (frameCount > 0 /\ fCtx.enableOrbDespawning /\ ~fCtx.pausePhysics)
              => ~(fNow - orbsRef[i].createdAt > orbsRef[i].lifetimeMs)

\* An orb made by createOrb is still live after a later unpaused frame with
\* despawning enabled (a frame that spawned an orb with a later id), and it
\* carries neither createdAt nor lifetimeMs.
C13_Witness ==
    /\ frameCount > 0 /\ fCtx.enableOrbDespawning /\ ~fCtx.pausePhysics
    /\ \E i, j \in 1..Len(orbsRef) :
          /\ orbsRef[i].createdAt = Undefined /\ orbsRef[i].lifetimeMs = Undefined
          /\ orbsRef[j].createdAt = fNow /\ orbsRef[j].id > orbsRef[i].id

\* The grid shows the orb where it is: FILLED on its body cells and PROXIMITY
\* on its avoidance-shell cells.
Stamped(g, orb) ==
    /\ \A c \in BodyCellsOf(orb) : hasCellFlag(g[c], CELL_FILLED)
    /\ \A c \in ShellCellsOf(orb) : hasCellFlag(g[c], CELL_PROXIMITY)

\* C14: between callbacks, where the render pass, createOrb's canSpawn and the
\* next frame read the grid, every live orb's body cells carry FILLED and its
\* avoidance-shell cells carry PROXIMITY.
C14_AsStated == \A i \in 1..Len(orbsRef) : Stamped(fGrid, orbsRef[i])

\* deleteOrb has removed an orb and a live orb whose footprint overlapped it is
\* no longer shown whole on the grid.
C14_Witness ==
    /\ lastCall.op = "deleteOrb" /\ lastCall.done
    /\ \E i \in 1..Len(orbsRef) : ~Stamped(fGrid, orbsRef[i])

-----------------------------------------------------------------------------
(* Claims about sequences of grid operations *)

\* C15: after border initialization every border cell still carries BORDER
\* after any sequence of markOrb, markOrbCircular, clearOrb and
\* clearOrbCircular.
C15_AsStated ==
    \A c \in Cells : IsBorderCell(c[1], c[2]) => hasCellFlag(grid[c], CELL_BORDER)

\* markOrb has been applied to an orb centred on a border cell, and that cell
\* now reads FILLED without BORDER.
C15_Witness ==
    /\ opCount > 0
    /\ IsBorderCell(centerCellX(gOrb), centerCellY(gOrb))
    /\ grid[<<centerCellX(gOrb), centerCellY(gOrb), centerLayer(gOrb)>>] = CELL_FILLED

-----------------------------------------------------------------------------
(* Claims about the pixel-to-cell conversion *)

\* floor(pixel * invCellSize) + startCell
FloorCellOf(px, cellSizePx, startCell) == (px \div (cellSizePx * Q)) + startCell

\* C16: the cell index used for the orb handed to markOrbCircular and
\* clearOrbCircular, and for the position handed to canSpawn, is
\* floor(pixel * invCellSize) + startCell on both axes, negative pixel
\* coordinates included.
C16_AsStated ==
    /\ gPhase \in {"marked", "cleared"} =>
          /\ centerCellX(gOrb) = FloorCellOf(gOrb.pxX, CellPx, StartCellX)
          /\ centerCellY(gOrb) = FloorCellOf(gOrb.pxY, CellPx, StartCellY)
    /\ spawnQuery.asked =>
          /\ centerCellX(spawnQuery) = FloorCellOf(spawnQuery.pxX, CellPx, StartCellX)
          /\ centerCellY(spawnQuery) = FloorCellOf(spawnQuery.pxY, CellPx, StartCellY)

\* A size-1 orb half a cell left of the viewport origin has been marked: the
\* cell of the floor index is free of FILLED and the first viewport column
\* carries it.
C16_Witness ==
    /\ gPhase = "marked" /\ gOrb.size = 1
    /\ gOrb.pxX < 0 /\ gOrb.pxY > 0
    /\ centerCellX(gOrb) = StartCellX
    /\ FloorCellOf(gOrb.pxX, CellPx, StartCellX) = StartCellX - 1
    /\ hasCellFlag(GridGetCell(grid, StartCellX, centerCellY(gOrb), centerLayer(gOrb)),
                   CELL_FILLED)
    /\ ~hasCellFlag(GridGetCell(grid, StartCellX - 1, centerCellY(gOrb),
                                centerLayer(gOrb)), CELL_FILLED)

-----------------------------------------------------------------------------
(* Claims about the continuous-spawn target *)

ScreenArea(ws) == ws.width * ws.height

\* C17: for every window size the target count t is at least minOrbCount; above
\* minOrbCount it is the integer nearest to
\* targetOrbCountAt4K * area / referenceScreenArea (halves upward), and at
\* minOrbCount that quotient rounds to at most minOrbCount; no window size of
\* at least the current area has a smaller target; the target is 600 at
\* 3840 x 2160 and 150 at 1920 x 1080.
C17_TargetCount ==
    LET t == targetOrbCount
        a == ScreenArea(windowSize)
        u == referenceScreenArea \div targetOrbCountAt4K
    IN  /\ u * targetOrbCountAt4K = referenceScreenArea
        /\ t >= minOrbCount
        /\ t > minOrbCount => (2 * t - 1) * u <= 2 * a /\ 2 * a < (2 * t + 1) * u
        /\ t = minOrbCount => 2 * a < (2 * t + 1) * u
        /\ \A ws \in TargetWindowSizes :
              ScreenArea(ws) >= a => TargetOrbCount(ws.width, ws.height) >= t
        /\ (windowSize.width = 3840 /\ windowSize.height = 2160) => t = 600
        /\ (windowSize.width = 1920 /\ windowSize.height = 1080) => t = 150

\* The window has been resized to 1920 x 1080 and the target is a quarter of
\* the 4K target.
C17_Witness ==
    /\ windowSize = [width |-> 1920, height |-> 1080]
    /\ 4 * targetOrbCount = targetOrbCountAt4K

-----------------------------------------------------------------------------
(* Claims about the pointer handed to the repulsion phase *)

\* C18: whenever a frame calls the repulsion computation (unpaused, avoidance
\* enabled, pointer active), the position it hands over is the sampled pointer
\* position minus the parallax offset current in that frame.
C18_AsStated ==
    repelCall.called =>
        repelCall.handed = <<repelCall.sampled[1] - repelCall.offset.x,
                             repelCall.sampled[2] - repelCall.offset.y>>

\* A frame with a non-zero parallax offset has handed the raw screen position
\* to the repulsion computation.
C18_Witness ==
    /\ repelCall.called
    /\ repelCall.offset # NoOffset
    /\ repelCall.handed = repelCall.sampled

-----------------------------------------------------------------------------
(* Claims about updatePosition *)

RECURSIVE SumSeq(_)
SumSeq(seq) == IF seq = <<>> THEN 0 ELSE Head(seq) + SumSeq(Tail(seq))

\* The displacement d is velocity v times the elapsed time, to within the
\* rounding of the position unit in each of the n updates, and exact when
\* no update rounds.
MovedBy(d, v, dts) ==
    /\ Abs(60 * d - v * SumSeq(dts)) < 60 * Max(1, Len(dts))
    /\ (\A i \in 1..Len(dts) : (v * dts[i]) % 60 = 0) => 60 * d = v * SumSeq(dts)

-----------------------------------------------------------------------------
(* Claims about the frame-callback chain *)

\* C20: at every moment at most one frame callback is pending (the reveal
\* animator's or the physics loop's), and once the unmount cleanup has run no
\* step invokes onLoop.
C20_OneChainAndCancelled ==
    /\ [](Cardinality(rafPending) <= 1)
    /\ [][cleanedUp => onLoopCalls' = onLoopCalls]_vars

\* The cleanup has run while the physics loop was going (the reveal had
\* completed and the loop had requested a frame), and nothing is pending.
C20_Witness ==
    /\ cleanedUp
    /\ loopIdRef # 0
    /\ onLoopCalls >= 2
    /\ rafPending = {}

-----------------------------------------------------------------------------
(* CollisionSystem.checkMove and applyReflection on a grid with obstacles *)

CheckW == 7       \* cellsX of the grid checkMove is called on
CheckH == 7       \* cellsY of that grid

CheckCells == (0..(CheckW - 1)) \X (0..(CheckH - 1)) \X (0..(GridL - 1))

\* The cell the moving orb starts in: far enough from the border for a body of
\* radius 1 to move one cell along X or Y without touching it.
CheckCellX == StartCellX + 1
CheckCellY == StartCellY + 1

\* A grid after initializeBorder() in which the cells of filled carry
\* CELL_FILLED, as the body pass of markOrbCircular leaves them for other orbs.
ObstacleGrid(filled) ==
    [c \in CheckCells |->
        IF c[1] = 0 \/ c[1] = CheckW - 1 \/ c[2] = 0 \/ c[2] = CheckH - 1 THEN CELL_BORDER
        ELSE IF c \in filled THEN CELL_FILLED
        ELSE CELL_EMPTY]

\* An orb one pixel short of the next cell on X and Y, in cell (cx, cy) of layer 1.
CheckOrb(cx, cy, v, size) ==
    MakeOrb((cx - StartCellX) * CellPx * Q + (CellPx - 1) * Q,
            (cy - StartCellY) * CellPx * Q + (CellPx - 1) * Q, Q, v, size)

\* Velocities toward the next cell, away from it, or resting, on each axis.
CheckVelocities ==
    {<<vx, vy, vz>> : vx \in {0, 100 * Q, -(100 * Q)}, vy \in {0, 100 * Q, -(100 * Q)},
                      vz \in {0, 40 * Q}}

\* Orbs handed to checkMove: of every size in the open middle of the grid, and
\* of size 1 in the last column before the right border.
CheckOrbs ==
    {CheckOrb(CheckCellX, CheckCellY, v, size) : v \in CheckVelocities, size \in 1..MaxSize}
    \cup {CheckOrb(CheckW - 2, CheckCellY, v, 1) : v \in CheckVelocities}

\* Cells a single other orb body may fill: the interior cells within two cells
\* of the moving orb that its own body does not cover.
ObstacleCells(orb) ==
    {c \in CheckCells :
        /\ c[1] \in 1..(CheckW - 2) /\ c[2] \in 1..(CheckH - 2)
        /\ Abs(c[1] - centerCellX(orb)) <= 2 /\ Abs(c[2] - centerCellY(orb)) <= 2
        /\ ~InBody(c, centerCellX(orb), centerCellY(orb), centerLayer(orb), orb.size)}

CheckInit ==
    /\ GridIdle /\ BurstIdle /\ CollideIdle /\ FrameIdle /\ ManagerIdle
    /\ OpsIdle /\ PointerIdle /\ MoveIdle /\ LoopIdle /\ FlagIdle /\ LimitIdle /\ RefsIdle
    /\ kOrb \in CheckOrbs
    /\ \E filled \in {{}} \cup {{c} : c \in ObstacleCells(kOrb)} : kGrid = ObstacleGrid(filled)
    /\ kResult = NoResult

\* const r = CollisionSystem.checkMove(orb, deltaTime, grid, vpc)
CheckMove ==
    /\ ~kResult.called
    /\ \E dt60 \in 1..2 :
          kResult' = checkMove(kOrb, dt60, kGrid)
                        @@ [called |-> TRUE, dt60 |-> dt60, reflected |-> NoOrb]
    /\ UNCHANGED <<kOrb, kGrid, opsVars, pointerVars, moveVars, loopVars>>
    /\ UNCHANGED <<flagVars, limitVars, refsVars>>
    /\ UNCHANGED <<gridVars, burstVars, collideVars, frameVars, managerVars>>

\* if (r.blocked) CollisionSystem.applyReflection(orb, r.reflectX, r.reflectY, r.reflectZ)
ApplyReflection ==
    /\ kResult.called /\ kResult.blocked /\ kResult.reflected = NoOrb
    /\ kResult' = [kResult EXCEPT !.reflected =
                      applyReflection(kOrb, kResult.reflectX, kResult.reflectY, kResult.reflectZ)]
    /\ UNCHANGED <<kOrb, kGrid, opsVars, pointerVars, moveVars, loopVars>>
    /\ UNCHANGED <<flagVars, limitVars, refsVars>>
    /\ UNCHANGED <<gridVars, burstVars, collideVars, frameVars, managerVars>>

CheckNext == CheckMove \/ ApplyReflection

SpecCheckMove == CheckInit /\ [][CheckNext]_vars

-----------------------------------------------------------------------------
(* C21: checkMove and the footprint at the full next position *)

\* The orb of the last checkMove call at its tentative next position.
CheckedNext == updatePosition(kOrb, kResult.dt60)

\* The cells of the body footprint centred on (cx, cy, cl) that are blocking.
BlockingUnder(g, cx, cy, cl, size) ==
    {d \in SphereOffsets(size - 1) : GridIsBlocking(g, cx + d[1], cy + d[2], cl + d[3])}

DiagonalBlocking ==
    BlockingUnder(kGrid, centerCellX(CheckedNext), centerCellY(CheckedNext),
                  centerLayer(CheckedNext), kOrb.size)

\* C21: for an orb of any size, when checkMove returns blocked = false no cell
\* of the body footprint centred on the full next position (next X cell, next
\* Y cell and next layer together) is blocking.
C21_AsStated == (kResult.called /\ ~kResult.blocked) => DiagonalBlocking = {}

\* C21 for size-1 orbs, where lines 61-74 test the full-diagonal cell.
C21_SizeOne ==
    (kResult.called /\ ~kResult.blocked /\ kOrb.size = 1) => DiagonalBlocking = {}

\* A multi-cell orb crosses a cell boundary on X and Y at once, a filled cell
\* lies under its footprint at the destination, and checkMove reports the
\* move as free.
C21_Witness ==
    /\ kResult.called /\ ~kResult.blocked /\ kOrb.size > 1
    /\ centerCellX(CheckedNext) # centerCellX(kOrb)
    /\ centerCellY(CheckedNext) # centerCellY(kOrb)
    /\ DiagonalBlocking # {}

-----------------------------------------------------------------------------
(* C22: axis-independent sliding *)

\* The body footprint displaced along X only, Y only and Z only is blocking.
DisplacedBlockingX ==
    BlockingUnder(kGrid, centerCellX(CheckedNext), centerCellY(kOrb), centerLayer(kOrb),
                  kOrb.size) # {}

DisplacedBlockingY ==
    BlockingUnder(kGrid, centerCellX(kOrb), centerCellY(CheckedNext), centerLayer(kOrb),
                  kOrb.size) # {}

DisplacedBlockingZ ==
    BlockingUnder(kGrid, centerCellX(kOrb), centerCellY(kOrb), centerLayer(CheckedNext),
                  kOrb.size) # {}

OnlyXBlocked == DisplacedBlockingX /\ ~DisplacedBlockingY /\ ~DisplacedBlockingZ

\* C22: whenever the X-displaced destination is blocking while the Y- and
\* Z-displaced destinations are not, checkMove returns reflectX = true and
\* reflectY = reflectZ = false and applyReflection leaves vy and vz unchanged,
\* also when the move crosses a cell boundary on Y or Z in the same frame.
C22_AsStated ==
    (kResult.called /\ OnlyXBlocked) =>
        /\ kResult.reflectX /\ ~kResult.reflectY /\ ~kResult.reflectZ
        /\ kResult.reflected # NoOrb =>
              /\ kResult.reflected.vx = -kOrb.vx
              /\ kResult.reflected.vy = kOrb.vy
              /\ kResult.reflected.vz = kOrb.vz

\* C22 for moves that stay in their row and layer.
C22_SameRowAndLayer ==
    (/\ kResult.called /\ OnlyXBlocked
     /\ centerCellY(CheckedNext) = centerCellY(kOrb)
     /\ centerLayer(CheckedNext) = centerLayer(kOrb)) =>
        /\ kResult.reflectX /\ ~kResult.reflectY /\ ~kResult.reflectZ
        /\ kResult.reflected # NoOrb =>
              /\ kResult.reflected.vx = -kOrb.vx
              /\ kResult.reflected.vy = kOrb.vy
              /\ kResult.reflected.vz = kOrb.vz

\* A size-1 orb in the last column moves into the right border and into the
\* next row at once: only its X-displaced destination is blocking, and
\* applyReflection has reversed vy with vx.
C22_Witness ==
    /\ kResult.reflected # NoOrb /\ OnlyXBlocked
    /\ centerCellY(CheckedNext) # centerCellY(kOrb)
    /\ kOrb.vy # 0
    /\ kResult.reflected.vy = -kOrb.vy

-----------------------------------------------------------------------------
(* C23: the separation impulse for overlapping pairs that are not approaching *)

\* dist and overlapRatio of the pair before the call (lines 60-74 and 96-99).
PreDist ==
    IF ZeroDistance(cPre[1], cPre[2]) THEN Q \div 1000
    ELSE Sqrt(NormSq(CellDelta(cPre[1], cPre[2])))

PreOverlap == minDistOf(cPre[1], cPre[2]) * Q - PreDist

PreOverlapRatio ==
    IF PreOverlap > 0 THEN TruncDiv(PreOverlap, minDistOf(cPre[1], cPre[2])) ELSE 0

\* dvn before and after the call, along the normal the call used.
PreDvn == Dot(RelVel(cPre[1], cPre[2]), cNormal)
PostDvn == Dot(RelVel(cOrbs[1], cOrbs[2]), cNormal)

ResolvedOverlap == cResolver = "OrbOrbCollision" /\ Overlapping(cPre[1], cPre[2])

\* C23: for every overlapping pair (any overlap ratio > 0) that is not
\* approaching, resolveCollisions injects a separating impulse, so that the
\* relative velocity along the normal becomes strictly separating.
C23_AsStated == (ResolvedOverlap /\ PreOverlapRatio > 0 /\ PreDvn <= 0) => PostDvn < 0

\* C23 for overlap ratios above 0.3, the pairs the stuck branch handles: the
\* relative velocity along the normal drops by the impulse of 20 px/s times
\* the overlap ratio, up to the rounding of the two mass fractions.
C23_DeepOverlap ==
    (ResolvedOverlap /\ PreOverlapRatio * 10 > 3 * Q /\ PreDvn <= 0) =>
        /\ PostDvn < 0
        /\ cPre[1].vz = cPre[2].vz /\ cNormal[3] = 0 =>
              Abs((PreDvn - PostDvn) - Fx(minSeparationSpeed, PreOverlapRatio))
                  <= Fx(minSeparationSpeed, PreOverlapRatio) \div 50 + SpeedTolerance

\* A pair overlaps by no more than 0.3 of its minimum distance and is not
\* approaching: the call leaves both velocities as they were.
C23_Witness ==
    /\ ResolvedOverlap /\ PreOverlapRatio > 0 /\ PreOverlapRatio * 10 <= 3 * Q
    /\ PreDvn <= 0
    /\ RelVel(cOrbs[1], cOrbs[2]) = RelVel(cPre[1], cPre[2])
    /\ PostDvn = PreDvn

-----------------------------------------------------------------------------
(* C24: position correction of overlapping pairs *)

\* radiusA + radiusB + 1 for the pair before the call, in fixed point.
PreMinDist == ((cPre[1].size - 1) + (cPre[2].size - 1) + 1) * Q

\* Centre distance of the pair in cells.
CellDistance(pair) == Sqrt(NormSq(CellDelta(pair[1], pair[2])))

\* The pair was closer than radiusA + radiusB + 1 when resolveCollisions ran.
CorrectedPair == cResolver = "OrbOrbCollision" /\ CellDistance(cPre) < PreMinDist

\* How far, in cells, the call moved each orb.
MovedA == Sqrt(NormSq(CellDelta(cPre[1], cOrbs[1])))
MovedB == Sqrt(NormSq(CellDelta(cPre[2], cOrbs[2])))

\* k = 1.2 + 0.8 * overlapRatio
SeparationFactor == (12 * Q) \div 10 + TruncDiv(8 * PreOverlapRatio, 10)

\* Rounding allowance of the fixed-point positions (0.03 cells).
CellTolerance == 3 * (Q \div 100)

\* C24: for every overlapping pair, coincident pairs included, the position
\* correction moves orbA by overlap * massB / (massA + massB) * k and orbB by
\* overlap * massA / (massA + massB) * k in opposite directions, with
\* k = 1.2 + 0.8 * overlapRatio between 1.2 and 2.0, and the centre distance
\* in cells right after the call is at least radiusA + radiusB + 1.  The two
\* moves add up along the line of centres; below the zero-distance threshold
\* the direction is the drawn one, and they add up along that.
C24_PositionCorrection ==
    CorrectedPair =>
        LET massA == cPre[1].size
            massB == cPre[2].size
        IN  /\ SeparationFactor >= (12 * Q) \div 10 /\ SeparationFactor <= 2 * Q
            /\ Abs(MovedA - Fx(TruncDiv(PreOverlap * massB, massA + massB), SeparationFactor))
                  <= CellTolerance
            /\ Abs(MovedB - Fx(TruncDiv(PreOverlap * massA, massA + massB), SeparationFactor))
                  <= CellTolerance
            /\ IF ZeroDistance(cPre[1], cPre[2])
               THEN Abs(CellDistance(cOrbs) - (MovedA + MovedB))
                        <= CellDistance(cPre) + CellTolerance
               ELSE Abs(CellDistance(cOrbs) - (MovedA + MovedB + CellDistance(cPre)))
                        <= CellTolerance
            /\ CellDistance(cOrbs) >= PreMinDist

\* Both kinds of pair were corrected: a coincident pair and a pair of unequal
\* masses at a positive distance, each pushed out to its minimum distance.
C24_Witness ==
    /\ CorrectedPair
    /\ CellDistance(cOrbs) >= PreMinDist
    /\ MovedA > 0 /\ MovedB > 0
    /\ \/ CellDistance(cPre) = 0
       \/ CellDistance(cPre) > 0 /\ cPre[1].size # cPre[2].size /\ MovedA # MovedB

-----------------------------------------------------------------------------
(* C25: speed and angle follow vx and vy *)

\* speed is the length of (vx, vy), up to rounding, and angle is its heading.
InSync(orb) ==
    /\ Abs(orb.speed - SpeedXY(orb)) <= SpeedTolerance
    /\ orb.angle = Atan2(orb.vy, orb.vx)

\* C25: after every operation that writes vx or vy, here
\* OrbOrbCollision.resolveCollisions, speed * speed = vx * vx + vy * vy and
\* angle is the heading of (vx, vy).
C25_AsStated ==
    cResolver = "OrbOrbCollision" => \A i \in 1..2 : InSync(cOrbs[i])

\* C25 for the angle alone, which lines 170-171 recompute.
C25_AngleInSync ==
    cResolver = "OrbOrbCollision" =>
        \A i \in 1..2 : cOrbs[i].angle = Atan2(cOrbs[i].vy, cOrbs[i].vx)

\* resolveCollisions has changed an orb's (vx, vy), the orb was in sync before
\* the call, its angle has been recomputed and its speed is the old one.
C25_Witness ==
    /\ cResolver = "OrbOrbCollision"
    /\ \E i \in 1..2 :
          /\ InSync(cPre[i])
          /\ <<cOrbs[i].vx, cOrbs[i].vy>> # <<cPre[i].vx, cPre[i].vy>>
          /\ cOrbs[i].angle = Atan2(cOrbs[i].vy, cOrbs[i].vx)
          /\ cOrbs[i].speed = cPre[i].speed
          /\ Abs(cOrbs[i].speed - SpeedXY(cOrbs[i])) > SpeedTolerance

-----------------------------------------------------------------------------
(* C26: the cells markOrbCircular and clearOrbCircular write for size 1 *)

\* The cells in which two grids differ.
ChangedCells(before, after) == {c \in Cells : before[c] # after[c]}

\* The cell containing the position of the orb of SpecGrid.
CentreCellOf(orb) == <<centerCellX(orb), centerCellY(orb), centerLayer(orb)>>

\* The grid as MarkOrb left it, which ClearOrb started from.
MarkedGrid == markOrbCircular(BorderGrid, gOrb)

\* C26: for a size-1 orb, markOrbCircular and clearOrbCircular each modify
\* exactly one grid cell, the cell containing the orb's position, and leave
\* every other cell unchanged.
C26_AsStated ==
    gOrb.size = 1 =>
        /\ gPhase = "marked" => ChangedCells(BorderGrid, grid) \subseteq {CentreCellOf(gOrb)}
        /\ gPhase = "cleared" => ChangedCells(MarkedGrid, grid) \subseteq {CentreCellOf(gOrb)}

\* C26 for the FILLED flag alone: the body of a size-1 orb is its one cell, and
\* every other cell the clear changes loses PROXIMITY only.
C26_OneFilledCell ==
    gOrb.size = 1 =>
        /\ gPhase = "marked" =>
              \A c \in Cells : hasCellFlag(grid[c], CELL_FILLED) => c = CentreCellOf(gOrb)
        /\ gPhase = "cleared" =>
              \A c \in ChangedCells(MarkedGrid, grid) :
                  c # CentreCellOf(gOrb) =>
                      grid[c] = removeCellFlag(MarkedGrid[c], CELL_PROXIMITY)

\* A size-1 orb has been marked inside the grid: its cell is FILLED and the
\* cells around it, up to two cells away, have changed to PROXIMITY.
C26_Witness ==
    /\ gOrb.size = 1 /\ gPhase = "marked"
    /\ CentreCellOf(gOrb) \in Cells
    /\ hasCellFlag(grid[CentreCellOf(gOrb)], CELL_FILLED)
    /\ \E c \in ChangedCells(BorderGrid, grid) :
          /\ c # CentreCellOf(gOrb)
          /\ CellDistSq(c, centerCellX(gOrb), centerCellY(gOrb), centerLayer(gOrb)) <= 4
          /\ hasCellFlag(grid[c], CELL_PROXIMITY)

-----------------------------------------------------------------------------
(* OrbPhysics.applySpeedLimit as a function of its arguments *)

\* Velocities in pixels per second (vx, vy) and layers per second (vz): at
\* rest, below every cap, at the cap of size 1, and above every cap along one
\* axis, along a diagonal, with a Z part, and with negative parts.
LimitVelocities ==
    { <<0, 0, 0>>, <<50 * Q, 0, 0>>, <<100 * Q, 0, 0>>, <<250 * Q, 0, 0>>,
      <<180 * Q, 240 * Q, 0>>, <<120 * Q, 0, (5 * Q) \div 2>>,
      <<-(90 * Q), 120 * Q, -(3 * Q)>> }

\* decelerationRate values from 0 to 1.
LimitRates == {0, Q \div 10, Q \div 2, Q}

LimitOrbs ==
    {MakeOrb(CellCentrePx(MidCellX, StartCellX), CellCentrePx(MidCellY, StartCellY), Q, v, size) :
        v \in LimitVelocities, size \in SizeInputs}

LimitInit ==
    /\ GridIdle /\ BurstIdle /\ CollideIdle /\ FrameIdle /\ ManagerIdle
    /\ OpsIdle /\ PointerIdle /\ MoveIdle /\ LoopIdle /\ CheckIdle /\ FlagIdle /\ RefsIdle
    /\ lOrb \in LimitOrbs /\ lPre = lOrb /\ lCall = NoLimitCall

\* OrbPhysics.applySpeedLimit(orb, baseMaxSpeed, minMaxSpeed, decelerationRate, deltaTime)
ApplySpeedLimit ==
    /\ ~lCall.called
    /\ \E rate \in LimitRates, dt60 \in 0..MaxDt60 :
          /\ lOrb' = applySpeedLimit(lOrb, baseMaxSpeed, minMaxSpeed, rate, dt60)
          /\ lCall' = [called |-> TRUE, rate |-> rate, dt60 |-> dt60]
    /\ lPre' = lOrb
    /\ UNCHANGED <<opsVars, pointerVars, moveVars, loopVars, checkVars, flagVars, refsVars>>
    /\ UNCHANGED <<gridVars, burstVars, collideVars, frameVars, managerVars>>

LimitNext == ApplySpeedLimit

SpecSpeedLimit == LimitInit /\ [][LimitNext]_vars

-----------------------------------------------------------------------------
(* C27: what applySpeedLimit does to an orb *)

\* u and v point the same way, up to the rounding of each component: no
\* component changes sign and the cross products vanish.
SameDirection(u, v) ==
    /\ \A i \in 1..3 : u[i] * v[i] >= 0 /\ (u[i] = 0 => v[i] = 0)
    /\ \A i \in 1..3 : \A j \in 1..3 :
          Abs(u[i] * v[j] - u[j] * v[i]) <= Abs(u[i]) + Abs(u[j])

\* Rounding allowance of the fixed-point 3D speed: one unit of vz counts 20
\* times (0.24 px/s).
Speed3DTolerance == 20 * (Q \div 100) + SpeedTolerance

VelocityOf(orb) == <<orb.vx, orb.vy, orb.vz>>

\* C27: with 0 <= decelerationRate <= 1 and deltaTime >= 0, applySpeedLimit
\* leaves an orb whose 3D speed is at or below max(minMaxSpeed,
\* baseMaxSpeed / sqrt(size)) unchanged; above that cap vx, vy and vz are
\* scaled by one common factor in (0, 1], so that the direction is kept and
\* the new 3D speed lies between the cap and the old speed; the position is
\* never changed.
C27_SpeedLimit ==
    lCall.called =>
        /\ lOrb.pxX = lPre.pxX /\ lOrb.pxY = lPre.pxY /\ lOrb.z = lPre.z
        /\ lOrb.size = lPre.size
        /\ IF Speed3D(lPre) <= CapOf(lPre)
           THEN lOrb = lPre
           ELSE /\ SameDirection(VelocityOf(lPre), VelocityOf(lOrb))
                /\ \A i \in 1..3 : Abs(VelocityOf(lOrb)[i]) <= Abs(VelocityOf(lPre)[i])
                /\ Speed3D(lOrb) > 0
                /\ Speed3D(lOrb) <= Speed3D(lPre)
                /\ Speed3D(lOrb) >= CapOf(lPre) - Speed3DTolerance

\* Both cases have happened: an orb above its cap with velocity on all three
\* axes has been slowed down, but not to the cap, and an orb at its cap has
\* been handed in.
C27_Witness ==
    /\ lCall.called
    /\ \/ /\ Speed3D(lPre) > CapOf(lPre)
          /\ lPre.vx # 0 /\ lPre.vy # 0 /\ lPre.vz # 0
          /\ Speed3D(lOrb) < Speed3D(lPre)
          /\ Speed3D(lOrb) > CapOf(lPre) + Q
       \/ /\ Speed3D(lPre) = CapOf(lPre) /\ lPre.vx # 0 /\ lCall.rate = Q /\ lCall.dt60 > 0

-----------------------------------------------------------------------------
(* Cell flag helpers of shared/types.ts applied to one cell state *)

MaxFlagCalls == 3     \* helper calls in one run

CellFlags == {CELL_PROXIMITY, CELL_FILLED, CELL_BORDER}

\* Every combination of the three flags.
CellStates == 0..(CELL_PROXIMITY + CELL_FILLED + CELL_BORDER)

FlagInit ==
    /\ GridIdle /\ BurstIdle /\ CollideIdle /\ FrameIdle /\ ManagerIdle
    /\ OpsIdle /\ PointerIdle /\ MoveIdle /\ LoopIdle /\ CheckIdle /\ LimitIdle /\ RefsIdle
    /\ flagCell \in CellStates /\ flagCall = NoFlagCall /\ flagCount = 0

\* state = addCellFlag(state, flag)
AddCellFlag ==
    /\ flagCount < MaxFlagCalls
    /\ \E f \in CellFlags :
          /\ flagCell' = addCellFlag(flagCell, f)
          /\ flagCall' = [op |-> "add", flag |-> f, arg |-> flagCell]
    /\ flagCount' = flagCount + 1
    /\ UNCHANGED <<opsVars, pointerVars, moveVars, loopVars, checkVars, limitVars, refsVars>>
    /\ UNCHANGED <<gridVars, burstVars, collideVars, frameVars, managerVars>>

\* state = removeCellFlag(state, flag)
RemoveCellFlag ==
    /\ flagCount < MaxFlagCalls
    /\ \E f \in CellFlags :
          /\ flagCell' = removeCellFlag(flagCell, f)
          /\ flagCall' = [op |-> "remove", flag |-> f, arg |-> flagCell]
    /\ flagCount' = flagCount + 1
    /\ UNCHANGED <<opsVars, pointerVars, moveVars, loopVars, checkVars, limitVars, refsVars>>
    /\ UNCHANGED <<gridVars, burstVars, collideVars, frameVars, managerVars>>

FlagNext == AddCellFlag \/ RemoveCellFlag

SpecFlags == FlagInit /\ [][FlagNext]_vars

-----------------------------------------------------------------------------
(* C28: the cell flags are independent *)

\* Every flag other than f reads the same in states s and r.
OthersAsIn(s, r, f) ==
    \A g \in CellFlags \ {f} : hasCellFlag(r, g) = hasCellFlag(s, g)

\* C28: for every state s and distinct flags f, g among PROXIMITY, FILLED and
\* BORDER, addCellFlag(s, f) has f set and removeCellFlag(s, f) has f clear,
\* both leave g as in s, both are idempotent, and
\* removeCellFlag(addCellFlag(s, f), f) = s whenever f is not set in s.
C28_FlagsIndependent ==
    flagCall.op # "none" =>
        LET s == flagCall.arg
            f == flagCall.flag
        IN  /\ OthersAsIn(s, flagCell, f)
            /\ flagCall.op = "add" =>
                  /\ hasCellFlag(flagCell, f)
                  /\ addCellFlag(flagCell, f) = flagCell
                  /\ ~hasCellFlag(s, f) => removeCellFlag(flagCell, f) = s
            /\ flagCall.op = "remove" =>
                  /\ ~hasCellFlag(flagCell, f)
                  /\ removeCellFlag(flagCell, f) = flagCell

\* A flag has been added to a state that lacked it and carried another flag,
\* or removed from a state that carried it and another flag; the other flag
\* is still set.
C28_Witness ==
    /\ flagCall.op # "none"
    /\ hasCellFlag(flagCall.arg, flagCall.flag) = (flagCall.op = "remove")
    /\ \E g \in CellFlags \ {flagCall.flag} :
          hasCellFlag(flagCall.arg, g) /\ hasCellFlag(flagCell, g)
    /\ flagCell # flagCall.arg

-----------------------------------------------------------------------------
(* C29: the selected id is null or live *)

\* The selected orb id is null or the id of an orb of the live set.
SelectionLive == selectedOrbIdRef = 0 \/ selectedOrbIdRef \in OrbIds(orbsRef)

\* The step is one createOrb, deleteOrb or selectOrb call.
ManagerCall == editCount' = editCount + 1

\* C29: after any sequence of createOrb, deleteOrb and selectOrb calls the
\* selected orb id is either null or the id of a live orb: each such call on a
\* state in which that holds leaves a state in which it holds.  Stated for
\* the calls made before the first frame callback, when nothing but these
\* calls has changed the live set.
C29_AsStated ==
    [][(ManagerCall /\ SelectionLive /\ frameCount = 0) => SelectionLive']_vars

\* C29, amended: the same, for selectOrb calls that pass null or the id of a
\* live orb; createOrb and deleteOrb calls with any arguments.
C29_SelectionLive ==
    [][(/\ ManagerCall /\ SelectionLive
        /\ lastCall'.op = "selectOrb" => lastCall'.id \in OrbIds(orbsRef) \cup {0})
            => SelectionLive']_vars

\* The selected orb has just been deleted while another orb is live, and the
\* selection is null.
C29_Witness ==
    /\ lastCall.op = "deleteOrb" /\ lastCall.done
    /\ lastCall.sel = lastCall.id
    /\ selectedOrbIdRef = 0
    /\ orbsRef # <<>>

-----------------------------------------------------------------------------
(* useGridInitialization and the grid and viewport cells runLoop reads *)

\* GridConfigFactory.create(window, ...): the configuration of the id-th grid.
GridConfigOf(id, ws) == [id |-> id, width |-> ws.width, height |-> ws.height]

\* new SpatialGrid(config)
NewGrid(config) ==
    [id |-> config.id, config |-> [width |-> config.width, height |-> config.height],
     border |-> FALSE, cleanHasBorder |-> FALSE]

\* grid.initializeBorder()
initializeBorder(g) == [g EXCEPT !.border = TRUE]

\* grid.saveCleanState(): the snapshot holds the border only if it was
\* initialized before.
saveCleanState(g) == [g EXCEPT !.cleanHasBorder = g.border]

\* Variant that takes the snapshot before the border is initialized.
BuildGrid_SnapshotFirst(config) == initializeBorder(saveCleanState(NewGrid(config)))

\* Lines 149-155 of the effect: the grid as it is when it is published.
BuildGrid(config) == saveCleanState(initializeBorder(NewGrid(config)))

\* ViewportCellsFactory.create(config)
BuildViewportCells(config) ==
    [id |-> config.id, config |-> [width |-> config.width, height |-> config.height]]

\* if (!canvas || !grid || !vpc || windowSize.width === 0) return; the canvas
\* is mounted whenever the loop runs.
FrameSkipped(g, v, ws) == g.id = 0 \/ v.id = 0 \/ ws.width = 0

RefsInit ==
    /\ GridIdle /\ CollideIdle /\ FrameIdle /\ ManagerIdle /\ AuxIdle
    /\ mounted = FALSE
    /\ triggerBurst = FALSE /\ committedTrigger = FALSE
    /\ windowSize = NoSize /\ committedSize = NoSize
    /\ gridRef = 0 /\ viewportCellsRef = 0
    /\ windowSizeRef = NoSize
    /\ hasBurstRef = FALSE /\ burstTimeRef = FALSE
    /\ retryQueue = <<>> /\ burstCalls = <<>> /\ chainsStarted = FALSE
    /\ resizeCount = 0 /\ toggleCount = 0

\* React flushes the effects of one commit in which the window size changed
\* (or the mount): the grid initialization effect (lines 146-166) and the
\* windowSizeRef sync.  triggerBurst stays false, the burst effect returns.
GridInitEffect ==
    LET sizeChanged == ~mounted \/ windowSize # committedSize
        g      == GridAfterEffect(sizeChanged, windowSize, gridRef)
        v      == GridAfterEffect(sizeChanged, windowSize, viewportCellsRef)
        config == GridConfigOf(g, windowSize)
    IN  /\ sizeChanged
        /\ mounted' = TRUE
        /\ committedSize' = windowSize
        /\ gridRef' = g
        /\ viewportCellsRef' = v
        /\ windowSizeRef' = windowSize
        /\ builtGrid' = IF windowSize.width = 0 THEN builtGrid ELSE BuildGrid(config)
        /\ builtVpc' = IF windowSize.width = 0 THEN builtVpc ELSE BuildViewportCells(config)
        /\ UNCHANGED <<triggerBurst, committedTrigger, windowSize, hasBurstRef, burstTimeRef,
                       retryQueue, burstCalls, chainsStarted, resizeCount, toggleCount>>
        /\ UNCHANGED <<loopFrame, opsVars, pointerVars, moveVars, loopVars>>
        /\ UNCHANGED <<checkVars, flagVars, limitVars>>
        /\ UNCHANGED <<gridVars, collideVars, frameVars, managerVars>>

\* One runLoop callback (part_023 134-228): it reads both refs once, returns
\* when the guard fails, and hands the two locals to runPhysics, whose phases
\* run when the reveal is complete and physics is not paused
\* (usePhysicsLoop.ts 51-73), and to the render pass.
RunLoopFrame ==
    /\ \E physicsRuns \in BOOLEAN :
          LET g    == builtGrid
              v    == builtVpc
              pair == [used |-> TRUE, grid |-> g, vpc |-> v]
          IN  loopFrame' =
                  IF FrameSkipped(g, v, windowSizeRef)
                  THEN [NoFrame EXCEPT !.called = TRUE, !.grid = g, !.vpc = v]
                  ELSE [called |-> TRUE, grid |-> g, vpc |-> v,
                        physics |-> IF physicsRuns THEN pair ELSE NoUse,
                        render |-> pair]
    /\ UNCHANGED <<builtGrid, builtVpc, opsVars, pointerVars, moveVars, loopVars>>
    /\ UNCHANGED <<checkVars, flagVars, limitVars>>
    /\ UNCHANGED <<gridVars, burstVars, collideVars, frameVars, managerVars>>

RefsNext == Resize \/ GridInitEffect \/ RunLoopFrame

SpecGridRefs == RefsInit /\ [][RefsNext]_vars

-----------------------------------------------------------------------------
(* C30: one frame reads one consistent pair *)

\* C30: across any interleaving of resize events and frame callbacks, the
\* grid and the viewport cells one frame reads are either both absent, and
\* then the frame runs no physics and no render, or both built from the same
\* grid configuration, the grid with its border initialized and its clean
\* snapshot saved before it became readable; every phase and the render pass
\* of the frame use that same pair.
C30_FrameReadsOnePair ==
    /\ (builtGrid.id = 0) = (builtVpc.id = 0)
    /\ loopFrame.called =>
          IF loopFrame.grid.id = 0 \/ loopFrame.vpc.id = 0
          THEN /\ loopFrame.grid = NoGrid /\ loopFrame.vpc = NoVpc
               /\ ~loopFrame.physics.used /\ ~loopFrame.render.used
          ELSE /\ loopFrame.grid.id = loopFrame.vpc.id
               /\ loopFrame.grid.config = loopFrame.vpc.config
               /\ loopFrame.grid.border /\ loopFrame.grid.cleanHasBorder
               /\ \A use \in {loopFrame.physics, loopFrame.render} :
                     use.used => use.grid = loopFrame.grid /\ use.vpc = loopFrame.vpc

\* A frame has run physics and the render pass on the first pair while a
\* second grid has already been built after a resize.
C30_Witness ==
    /\ loopFrame.called /\ loopFrame.physics.used /\ loopFrame.render.used
    /\ loopFrame.grid.id = 1
    /\ builtGrid.id = 2 /\ builtGrid.config # loopFrame.grid.config

=============================================================================
